---- MODULE Spec2Model ----
(***************************************************************************)
(* Model of libsyllable's streaming detector (syllable_detector.c): the    *)
(* four-state syllable state machine, the realtime calibration control,    *)
(* the 16-slot event ring buffer and the process / flush / reset API.      *)
(*                                                                         *)
(* The floating-point DSP chain (AGC, ZFF, biquad, envelope, FFT features) *)
(* is not computed.  One input sample is represented by the outcome of     *)
(* the float comparisons the state machine reads on that sample (record    *)
(* fields named after the locals of syllable_process).  Every integer      *)
(* counter, index, timer and flag of the detector is modelled exactly.     *)
(***************************************************************************)
EXTENDS Integers, Sequences, FiniteSets, TLC

-----------------------------------------------------------------------------
(* Program constants *)

PROMINENCE_BUFFER_SIZE == 16

RT_BUF_SIZE == 100

\* n < 10 calibration frames: finalize_rt_calibration uses the default 0.001
RT_MIN_FRAMES == 10

\* (int)(0.050f * sample_rate): time limit of ONSET_RISING, in ms
ONSET_RISING_MS == 50

\* (int)(0.1f * sample_rate): time limit of NUCLEUS, in ms
NUCLEUS_MS == 100

\* if (d->f0_jump_counter > 3)
F0_JUMP_CONFIRM == 3

-----------------------------------------------------------------------------
(* Bounds of the model *)

\* samples fed to one detector in one behaviour of Spec
MaxSamples == 7

\* longest input block of one syllable_process call
MaxChunk == 2

\* sample_rate of the configurations explored (Hz)
SampleRate == 20

\* control calls (set_realtime_mode, recalibrate, set_snr_threshold) made in
\* one behaviour
MaxCtl == 2

\* syllables fed in one behaviour of SpecRing
MaxRingCalls == 17

\* calls of one behaviour of SpecRing that pass a non-empty output array
MaxDrain == 2

\* samples fed in one behaviour of SpecDist
MaxDistSamples == 12

\* samples fed in one behaviour of SpecOffline
MaxOfflineSamples == 11

\* samples fed in one behaviour of SpecReset, before and after the reset
MaxResetSamples == 6

\* samples fed in one behaviour of SpecChunk
MaxPairSamples == 8

\* samples fed in one behaviour of SpecMachine
MaxMachineSamples == 6

\* samples fed in one behaviour of SpecAlloc
MaxAllocSamples == 2

\* calls before the flush in one behaviour of SpecIso
MaxIsoCalls == 5

\* samples fed in one behaviour of SpecApi
MaxApiSamples == 5

\* samples fed in one behaviour of SpecZero
MaxZeroSamples == 10

\* samples fed in SpecFlight
MaxFlightSamples == 8

\* samples fed in SpecProm
MaxPromSamples == 8

\* samples fed in SpecSnr
MaxSnrSamples == 12

\* samples fed in SpecGate
MaxGateSamples == 8

\* epochs in one behaviour of SpecF0
MaxF0Epochs == 6

\* samples fed in SpecVoicing
MaxVoicingSamples == 6

\* samples fed in SpecBuffer
MaxBufferSamples == 6

\* samples fed in SpecVoicedOnly
MaxVoicedOnlySamples == 6

\* largest context_size configured in SpecContext
MaxContextSize == 17

\* samples fed in SpecStats
MaxStatsSamples == 7

-----------------------------------------------------------------------------
(* Configuration *)

\* (int)(ms * 0.001f * sample_rate)
MsToSamples(ms, rate) == (ms * rate) \div 1000

CalibrationMsSet == {100}

\* SyllableConfig: the fields read by the modelled code
ConfigsOf(dists, contexts, modes) ==
  [ sample_rate : {SampleRate},
    min_syllable_dist_ms : dists,
    context_size : contexts,
    allow_unvoiced_onsets : {1},
    realtime_mode : modes,
    calibration_duration_ms : CalibrationMsSet,
    snr_threshold_db : {6} ]

-----------------------------------------------------------------------------
(* One input sample, as seen by the state machine *)

Sample(v, f0s, f0a, pr, fu, un, st, eg, hf, re, ne) ==
  [ is_voiced |-> v,          \* d->is_voiced after the voicing logic
    f0_set |-> f0s,           \* an epoch assigned a valid smoothed_f0
    f0_above |-> f0a,         \* smoothed_f0 > min_f0_since_peak * 1.05f
    pr_on |-> pr,             \* peak_rate > threshold_on
    fusion_on |-> fu,         \* current_fusion_score > fusion_threshold_on
    unv_on |-> un,            \* sf_norm or hf_norm > unvoiced_onset_threshold
    strong_evidence |-> st,   \* fusion > 0.85 or teo / ler / harmonicity
    energy_gate |-> eg,       \* energy > 3 * thresh[0] and > 0.001
    hf_mixed |-> hf,          \* hf_norm > 0.5f in determine_onset_type
    rise_exit |-> re,         \* pr_dropping || fusion_dropping
    nucleus_exit |-> ne ]     \* energy_low || fusion_low

\* all-zero input: nothing above a threshold, every exit comparison true
Silence == Sample(0, 0, 0, 0, 0, 0, 0, 0, 0, 1, 1)

\* all-zero input within voiced_hold_samples of the creation or of the last
\* epoch: last_epoch_samples_ago <= voiced_hold_samples keeps is_voiced = 1
SilenceHeld == Sample(1, 0, 0, 0, 0, 0, 0, 0, 0, 1, 1)

\* loud unvoiced burst: fusion and unvoiced triggers, strong evidence
Burst == Sample(0, 0, 0, 0, 1, 1, 1, 1, 0, 0, 0)

\* voiced peak-rate onset at level pitch, without strong evidence
VoicedOnset == Sample(1, 1, 0, 1, 0, 0, 0, 1, 0, 0, 0)

\* voiced through voiced_hold_samples after the last epoch, peak rate high
VoicedHold == Sample(1, 0, 0, 1, 0, 0, 0, 1, 0, 0, 0)

-----------------------------------------------------------------------------
(* Events *)

\* memset(&d->wip_event, 0, sizeof(d->wip_event))
ZeroEvent ==
  [ timestamp_samples |-> 0,
    duration |-> 0,            \* duration_s * sample_rate
    onset_type |-> "VOICED",   \* ONSET_TYPE_VOICED = 0
    context |-> << >>,         \* neighbours read for prominence_score, delta_f0
    accent_thr |-> 0,          \* is_accented = (score > accent_thr / 10)
    h_seq |-> 0,               \* history: position in the order of pushes
    h_thresh |-> "none" ]      \* history: thresholds in force at the onset

ZeroSlot == [event |-> ZeroEvent, is_ready |-> 0]

\* memset(&d->rt_cal, 0, sizeof(d->rt_cal))
ZeroCal ==
  [ is_calibrating |-> 0,
    sample_count |-> 0,
    target_samples |-> 0,
    buf_idx |-> 0,
    gamma_db |-> 0,
    thresh |-> "zero" ]

Slots == 0 .. (PROMINENCE_BUFFER_SIZE - 1)

-----------------------------------------------------------------------------
(* Construction and reset *)

syllable_reset(d) ==
  [d EXCEPT !.total_samples = 0,
            !.state = "IDLE",
            !.is_voiced = 0,
            !.buf_read_idx = 0,
            !.buf_write_idx = 0,
            !.buf_count = 0,
            !.event_buffer = [i \in Slots |-> [@[i] EXCEPT !.is_ready = 0]],
            !.h_pushed = 0,
            !.h_dropped = 0]

syllable_create(cfg) ==
  syllable_reset(
    [ config |-> cfg,
      total_samples |-> 0,
      is_voiced |-> 0,
      f0_valid |-> 0,            \* smoothed_f0 > 50.0f
      f0_has_risen |-> 1,
      state |-> "IDLE",
      state_timer |-> 0,
      max_onset_rising_samples |-> MsToSamples(ONSET_RISING_MS, cfg.sample_rate),
      wip_event |-> ZeroEvent,
      onset_timestamp |-> 0,
      last_event_samples |-> 0,
      current_onset_type |-> "VOICED",
      event_buffer |-> [i \in Slots |-> ZeroSlot],
      buf_write_idx |-> 0,
      buf_read_idx |-> 0,
      buf_count |-> 0,
      rt_cal |-> ZeroCal,
      h_pushed |-> 0,            \* history: events pushed since reset
      h_dropped |-> 0 ] )        \* history: events overwritten since reset

-----------------------------------------------------------------------------
(* Realtime calibration *)

finalize_rt_calibration(d) ==
  LET cal == d.rt_cal
      n == IF cal.buf_idx < RT_BUF_SIZE THEN cal.buf_idx ELSE RT_BUF_SIZE
  IN [d EXCEPT !.rt_cal.gamma_db = d.config.snr_threshold_db,
               !.rt_cal.thresh = IF n < RT_MIN_FRAMES THEN "default"
                                                      ELSE "computed",
               !.rt_cal.is_calibrating = 0]

update_rt_calibration(d) ==
  LET d1 == [d EXCEPT !.rt_cal.buf_idx = @ + 1,
                      !.rt_cal.sample_count = @ + 1]
  IN IF d1.rt_cal.sample_count >= d1.rt_cal.target_samples
       THEN finalize_rt_calibration(d1)
       ELSE d1

\* variant: starting a calibration also returns the state machine to IDLE
StartCalibration_restarts_machine(d) ==
  [d EXCEPT !.state = "IDLE",
            !.rt_cal =
     [ZeroCal EXCEPT !.is_calibrating = 1,
                     !.target_samples =
                        MsToSamples(d.config.calibration_duration_ms,
                                    d.config.sample_rate)]]

StartCalibration(d) ==
  [d EXCEPT !.rt_cal =
     [ZeroCal EXCEPT !.is_calibrating = 1,
                     !.target_samples =
                        MsToSamples(d.config.calibration_duration_ms,
                                    d.config.sample_rate)]]

\* variant: enabling or disabling realtime mode also restarts the sample clock
set_realtime_mode_restarts_clock(d, enable) ==
  LET d1 == [d EXCEPT !.config.realtime_mode = IF enable # 0 THEN 1 ELSE 0,
                      !.total_samples = 0]
  IN IF enable # 0 THEN StartCalibration(d1) ELSE d1

syllable_set_realtime_mode(d, enable) ==
  LET d1 == [d EXCEPT !.config.realtime_mode = IF enable # 0 THEN 1 ELSE 0]
  IN IF enable # 0 THEN StartCalibration(d1) ELSE d1

syllable_recalibrate(d) ==
  StartCalibration([d EXCEPT !.config.realtime_mode = 1])

syllable_is_calibrating(d) == d.rt_cal.is_calibrating

syllable_set_snr_threshold(d, snr_db) ==
  LET d1 == [d EXCEPT !.config.snr_threshold_db = snr_db]
  IN IF d1.rt_cal.is_calibrating = 0 /\ d1.config.realtime_mode = 1
       THEN [d1 EXCEPT !.rt_cal.gamma_db = snr_db]
       ELSE d1

-----------------------------------------------------------------------------
(* Prominence context and the ring buffer *)

\* The ready neighbours visited by calculate_prominence / calculate_delta_f0
\* for target_idx, in the order of the loop: prev_idx then next_idx, i = 1..N.
RECURSIVE ContextFrom(_, _, _)
ContextFrom(d, target_idx, i) ==
  IF i > d.config.context_size THEN << >>
  ELSE
    LET prev_idx == (target_idx - i + PROMINENCE_BUFFER_SIZE)
                       % PROMINENCE_BUFFER_SIZE
        next_idx == (target_idx + i) % PROMINENCE_BUFFER_SIZE
        p == IF d.event_buffer[prev_idx].is_ready = 1
               THEN << d.event_buffer[prev_idx].event.timestamp_samples >>
               ELSE << >>
        n == IF d.event_buffer[next_idx].is_ready = 1
               THEN << d.event_buffer[next_idx].event.timestamp_samples >>
               ELSE << >>
    IN p \o n \o ContextFrom(d, target_idx, i + 1)

\* variant: the loop over the neighbours starts at i = 0, the target itself
calculate_prominence_from_target(d, target_idx) ==
  IF d.event_buffer[target_idx].is_ready = 0 THEN << -1 >>
  ELSE ContextFrom(d, target_idx, 0)

\* << -1 >> stands for the score 0.0f of a slot that is not ready; an empty
\* context is count == 0, the score 0.5f
calculate_prominence(d, target_idx) ==
  IF d.event_buffer[target_idx].is_ready = 0 THEN << -1 >>
  ELSE ContextFrom(d, target_idx, 1)

\* variant: a full buffer is overwritten without advancing the read index
PushEvent_keep_read_idx(d, evt) ==
  LET e == [evt EXCEPT !.h_seq = d.h_pushed + 1]
      w == d.buf_write_idx
      stored == [d EXCEPT !.event_buffer[w] = [event |-> e, is_ready |-> 1],
                          !.buf_write_idx = (w + 1) % PROMINENCE_BUFFER_SIZE,
                          !.h_pushed = @ + 1]
  IN IF d.buf_count < PROMINENCE_BUFFER_SIZE
       THEN [stored EXCEPT !.buf_count = @ + 1]
       ELSE [stored EXCEPT !.h_dropped = @ + 1]

\* variant: the count grows on every push, full or not
PushEvent_unbounded(d, evt) ==
  LET e == [evt EXCEPT !.h_seq = d.h_pushed + 1]
      w == d.buf_write_idx
  IN [d EXCEPT !.event_buffer[w] = [event |-> e, is_ready |-> 1],
               !.buf_write_idx = (w + 1) % PROMINENCE_BUFFER_SIZE,
               !.h_pushed = @ + 1,
               !.buf_count = @ + 1]

\* Push to Ring Buffer (NUCLEUS -> COOLDOWN)
PushEvent(d, evt) ==
  LET e == [evt EXCEPT !.h_seq = d.h_pushed + 1]
      w == d.buf_write_idx
      stored == [d EXCEPT !.event_buffer[w] = [event |-> e, is_ready |-> 1],
                          !.buf_write_idx = (w + 1) % PROMINENCE_BUFFER_SIZE,
                          !.h_pushed = @ + 1]
  IN IF d.buf_count < PROMINENCE_BUFFER_SIZE
       THEN [stored EXCEPT !.buf_count = @ + 1]
       ELSE [stored EXCEPT !.buf_read_idx =
                              (@ + 1) % PROMINENCE_BUFFER_SIZE,
                           !.h_dropped = @ + 1]

\* variant: an event is stamped with the sample counter when it is written
PopEvent_restamps(d, thr, via) ==
  LET r == d.buf_read_idx
      evt == [d.event_buffer[r].event EXCEPT
                !.timestamp_samples = d.total_samples,
                !.context = calculate_prominence(d, r),
                !.accent_thr = thr]
      d1 == [d EXCEPT !.event_buffer[r] = [event |-> evt, is_ready |-> 0],
                      !.buf_read_idx = (r + 1) % PROMINENCE_BUFFER_SIZE,
                      !.buf_count = @ - 1]
  IN [ d |-> d1,
       rec |-> [ event |-> evt,
                 via |-> via,
                 rt |-> d.config.realtime_mode,
                 pending |-> d.buf_count,
                 newer |-> d.h_pushed - evt.h_seq ] ]

\* variant: the slot of an event that was written stays ready
PopEvent_stays_ready(d, thr, via) ==
  LET r == d.buf_read_idx
      evt == [d.event_buffer[r].event EXCEPT
                !.context = calculate_prominence(d, r),
                !.accent_thr = thr]
      d1 == [d EXCEPT !.event_buffer[r] = [event |-> evt, is_ready |-> 1],
                      !.buf_read_idx = (r + 1) % PROMINENCE_BUFFER_SIZE,
                      !.buf_count = @ - 1]
  IN [ d |-> d1,
       rec |-> [ event |-> evt,
                 via |-> via,
                 rt |-> d.config.realtime_mode,
                 pending |-> d.buf_count,
                 newer |-> d.h_pushed - evt.h_seq ] ]

\* One iteration of the emission loop body: score the event at the read
\* index, copy it out, clear its ready flag and advance the read index.
PopEvent(d, thr, via) ==
  LET r == d.buf_read_idx
      evt == [d.event_buffer[r].event EXCEPT
                !.context = calculate_prominence(d, r),
                !.accent_thr = thr]
      d1 == [d EXCEPT !.event_buffer[r] = [event |-> evt, is_ready |-> 0],
                      !.buf_read_idx = (r + 1) % PROMINENCE_BUFFER_SIZE,
                      !.buf_count = @ - 1]
  IN [ d |-> d1,
       rec |-> [ event |-> evt,
                 via |-> via,                       \* history
                 rt |-> d.config.realtime_mode,     \* history
                 pending |-> d.buf_count,           \* history
                 newer |-> d.h_pushed - evt.h_seq ] ]

\* variant: the trailing context is required in realtime mode too
RECURSIVE EmitLoop_context_in_realtime(_, _, _, _)
EmitLoop_context_in_realtime(d, out, events_written, max_events) ==
  LET context_needed == d.config.context_size
  IN IF d.buf_count > context_needed /\ events_written < max_events
       THEN LET p == PopEvent(d, 9, "process")
            IN EmitLoop_context_in_realtime(p.d, Append(out, p.rec),
                                            events_written + 1, max_events)
       ELSE [d |-> d, out |-> out]

\* variant: the emission loop runs at buf_count >= context_needed
RECURSIVE EmitLoop_at_context_size(_, _, _, _)
EmitLoop_at_context_size(d, out, events_written, max_events) ==
  LET context_needed == IF d.config.realtime_mode = 1 THEN 0
                        ELSE d.config.context_size
  IN IF /\ d.buf_count >= context_needed
        /\ d.buf_count > 0
        /\ events_written < max_events
       THEN LET p == PopEvent(d, 9, "process")
            IN EmitLoop_at_context_size(p.d, Append(out, p.rec),
                                        events_written + 1, max_events)
       ELSE [d |-> d, out |-> out]

\* 6. Delayed Event Emission: while (buf_count > context_needed &&
\*                                   events_written < max_events)
RECURSIVE EmitLoop(_, _, _, _)
EmitLoop(d, out, events_written, max_events) ==
  LET context_needed == IF d.config.realtime_mode = 1 THEN 0
                        ELSE d.config.context_size
  IN IF d.buf_count > context_needed /\ events_written < max_events
       THEN LET p == PopEvent(d, 9, "process")
            IN EmitLoop(p.d, Append(out, p.rec), events_written + 1,
                        max_events)
       ELSE [d |-> d, out |-> out]

\* variant: syllable_flush applies the accent threshold of syllable_process
RECURSIVE FlushLoop_streaming_threshold(_, _, _, _)
FlushLoop_streaming_threshold(d, out, events_written, max_events) ==
  IF d.buf_count > 0 /\ events_written < max_events
    THEN LET p == PopEvent(d, 9, "flush")
         IN FlushLoop_streaming_threshold(p.d, Append(out, p.rec),
                                          events_written + 1, max_events)
    ELSE [d |-> d, out |-> out]

RECURSIVE FlushLoop(_, _, _, _)
FlushLoop(d, out, events_written, max_events) ==
  IF d.buf_count > 0 /\ events_written < max_events
    THEN LET p == PopEvent(d, 12, "flush")
         IN FlushLoop(p.d, Append(out, p.rec), events_written + 1, max_events)
    ELSE [d |-> d, out |-> out]

\* variant: flush also abandons the syllable under construction
syllable_flush_ends_syllable(d, max_events) ==
  FlushLoop([d EXCEPT !.state = "IDLE", !.state_timer = 0],
            << >>, 0, max_events)

\* variant: flush empties the buffer whatever the capacity of the array
syllable_flush_ignores_capacity(d, max_events) ==
  FlushLoop(d, << >>, 0, PROMINENCE_BUFFER_SIZE)

syllable_flush(d, max_events) == FlushLoop(d, << >>, 0, max_events)

-----------------------------------------------------------------------------
(* syllable_process: one iteration of the per-sample loop *)

\* (int)(d->total_samples - d->last_event_samples): the uint64_t difference
\* wraps modulo 2^64 and the conversion to int keeps the low 32 bits, which
\* is the signed difference as long as its magnitude is below 2^31.
TimeSinceLast(d) == d.total_samples - d.last_event_samples

MinDistSamples(d) ==
  MsToSamples(d.config.min_syllable_dist_ms, d.config.sample_rate)

MaxNucleusSamples(d) == MsToSamples(NUCLEUS_MS, d.config.sample_rate)

\* variant: samples consumed during calibration are not counted
FrontEnd_uncounted_calibration(d, s) ==
  LET valid == IF s.f0_set = 1 THEN 1 ELSE d.f0_valid
      risen == IF valid = 1
                 THEN (IF s.f0_above = 1 THEN 1 ELSE d.f0_has_risen)
                 ELSE (IF s.is_voiced = 0 THEN 1 ELSE d.f0_has_risen)
  IN [d EXCEPT !.total_samples =
                  IF d.config.realtime_mode = 1 /\ d.rt_cal.is_calibrating = 1
                    THEN @ ELSE @ + 1,
               !.is_voiced = s.is_voiced,
               !.f0_valid = valid,
               !.f0_has_risen = risen]

\* 1. ZFF detection: sample counter, voicing flag, F0 rise tracking
FrontEnd(d, s) ==
  LET valid == IF s.f0_set = 1 THEN 1 ELSE d.f0_valid
      risen == IF valid = 1
                 THEN (IF s.f0_above = 1 THEN 1 ELSE d.f0_has_risen)
                 ELSE (IF s.is_voiced = 0 THEN 1 ELSE d.f0_has_risen)
  IN [d EXCEPT !.total_samples = @ + 1,
               !.is_voiced = s.is_voiced,
               !.f0_valid = valid,
               !.f0_has_risen = risen]

determine_onset_type(d, s) ==
  IF d.is_voiced = 1
    THEN (IF s.hf_mixed = 1 THEN "MIXED" ELSE "VOICED")
    ELSE "UNVOICED"

\* variant: the fusion trigger is taken on unvoiced samples whatever
\* allow_unvoiced_onsets says
StateIdle_fusion_ungated(d, s) ==
  LET voiced_trigger == s.pr_on = 1 /\ d.is_voiced = 1
      fusion_trigger == s.fusion_on = 1
      unvoiced_trigger == /\ d.config.allow_unvoiced_onsets = 1
                          /\ d.is_voiced = 0
                          /\ s.unv_on = 1
      f0_allows_new_onset ==
        IF d.config.realtime_mode = 1 THEN TRUE
        ELSE \/ d.f0_has_risen = 1
             \/ s.strong_evidence = 1
             \/ TimeSinceLast(d) > MinDistSamples(d) * 2
      energy_gate_passed ==
        IF d.config.realtime_mode = 1 /\ d.rt_cal.is_calibrating = 0
          THEN s.energy_gate = 1
          ELSE TRUE
      type == determine_onset_type(d, s)
  IN IF /\ (voiced_trigger \/ fusion_trigger \/ unvoiced_trigger)
        /\ f0_allows_new_onset
        /\ energy_gate_passed
       THEN [d EXCEPT !.state = "ONSET_RISING",
                      !.state_timer = 0,
                      !.current_onset_type = type,
                      !.wip_event =
                         [ZeroEvent EXCEPT
                            !.timestamp_samples = d.total_samples,
                            !.onset_type = type,
                            !.h_thresh =
                               IF d.config.realtime_mode = 1
                                 THEN d.rt_cal.thresh ELSE "offline"],
                      !.onset_timestamp = d.total_samples,
                      !.f0_has_risen = 0]
       ELSE d

\* variant: an open F0 gate and energy gate start an onset without a trigger
StateIdle_untriggered(d, s) ==
  LET f0_condition == d.f0_has_risen = 1
      strong_evidence == s.strong_evidence = 1
      enough_time_passed == TimeSinceLast(d) > MinDistSamples(d) * 2
      f0_allows_new_onset ==
        IF d.config.realtime_mode = 1 THEN TRUE
        ELSE f0_condition \/ strong_evidence \/ enough_time_passed
      energy_gate_passed ==
        IF d.config.realtime_mode = 1 /\ d.rt_cal.is_calibrating = 0
          THEN s.energy_gate = 1
          ELSE TRUE
      type == determine_onset_type(d, s)
  IN IF f0_allows_new_onset /\ energy_gate_passed
       THEN [d EXCEPT !.state = "ONSET_RISING",
                      !.state_timer = 0,
                      !.current_onset_type = type,
                      !.wip_event =
                         [ZeroEvent EXCEPT
                            !.timestamp_samples = d.total_samples,
                            !.onset_type = type,
                            !.h_thresh =
                               IF d.config.realtime_mode = 1
                                 THEN d.rt_cal.thresh ELSE "offline"],
                      !.onset_timestamp = d.total_samples,
                      !.f0_has_risen = 0]
       ELSE d

StateIdle(d, s) ==
  LET voiced_trigger == s.pr_on = 1 /\ d.is_voiced = 1
      fusion_trigger == s.fusion_on = 1
      unvoiced_trigger == /\ d.config.allow_unvoiced_onsets = 1
                          /\ d.is_voiced = 0
                          /\ s.unv_on = 1
      f0_condition == d.f0_has_risen = 1
      strong_evidence == s.strong_evidence = 1
      enough_time_passed == TimeSinceLast(d) > MinDistSamples(d) * 2
      f0_allows_new_onset ==
        IF d.config.realtime_mode = 1 THEN TRUE
        ELSE f0_condition \/ strong_evidence \/ enough_time_passed
      energy_gate_passed ==
        IF d.config.realtime_mode = 1 /\ d.rt_cal.is_calibrating = 0
          THEN s.energy_gate = 1
          ELSE TRUE
      type == determine_onset_type(d, s)
  IN IF /\ \/ voiced_trigger
           \/ (fusion_trigger /\ (d.config.allow_unvoiced_onsets = 1
                                  \/ d.is_voiced = 1))
           \/ unvoiced_trigger
        /\ f0_allows_new_onset
        /\ energy_gate_passed
       THEN [d EXCEPT !.state = "ONSET_RISING",
                      !.state_timer = 0,
                      !.current_onset_type = type,
                      !.wip_event =
                         [ZeroEvent EXCEPT
                            !.timestamp_samples = d.total_samples,
                            !.onset_type = type,
                            !.h_thresh =
                               IF d.config.realtime_mode = 1
                                 THEN d.rt_cal.thresh ELSE "offline"],
                      !.onset_timestamp = d.total_samples,
                      !.f0_has_risen = 0]
       ELSE d

StateOnsetRising(d, s) ==
  LET timer == d.state_timer + 1
      time_limit_reached == timer > d.max_onset_rising_samples
      to_nucleus == s.rise_exit = 1 \/ time_limit_reached
      voicing_lost == d.is_voiced = 0 /\ d.current_onset_type = "VOICED"
  IN [d EXCEPT !.state_timer = timer,
               !.state = IF voicing_lost THEN "COOLDOWN"
                         ELSE IF to_nucleus THEN "NUCLEUS"
                         ELSE "ONSET_RISING"]

\* variant: NUCLEUS has no time limit
StateNucleus_no_timeout(d, s) ==
  LET timer == d.state_timer + 1
      voicing_lost == d.is_voiced = 0 /\ d.current_onset_type = "VOICED"
      d1 == [d EXCEPT !.state_timer = timer]
  IN IF s.nucleus_exit = 1 \/ voicing_lost
       THEN LET evt == [d.wip_event EXCEPT
                          !.duration = d.total_samples - d.onset_timestamp]
                d2 == [d1 EXCEPT !.state = "COOLDOWN",
                                 !.wip_event = evt]
            IN [PushEvent(d2, evt) EXCEPT
                  !.last_event_samples = d.total_samples]
       ELSE d1

StateNucleus(d, s) ==
  LET timer == d.state_timer + 1
      voicing_lost == d.is_voiced = 0 /\ d.current_onset_type = "VOICED"
      nucleus_timeout == timer > MaxNucleusSamples(d)
      d1 == [d EXCEPT !.state_timer = timer]
  IN IF s.nucleus_exit = 1 \/ voicing_lost \/ nucleus_timeout
       THEN LET evt == [d.wip_event EXCEPT
                          !.duration = d.total_samples - d.onset_timestamp]
                d2 == [d1 EXCEPT !.state = "COOLDOWN",
                                 !.wip_event = evt]
            IN [PushEvent(d2, evt) EXCEPT
                  !.last_event_samples = d.total_samples]
       ELSE d1

\* variant: COOLDOWN ends on its first sample
StateCooldown_no_wait(d) ==
  [d EXCEPT !.state_timer = @ + 1, !.state = "IDLE"]

StateCooldown(d) ==
  LET timer == d.state_timer + 1
  IN [d EXCEPT !.state_timer = timer,
               !.state = IF timer > MinDistSamples(d) THEN "IDLE"
                         ELSE "COOLDOWN"]

\* 5. State Machine
StateMachine(d, s) ==
  CASE d.state = "IDLE" -> StateIdle(d, s)
    [] d.state = "ONSET_RISING" -> StateOnsetRising(d, s)
    [] d.state = "NUCLEUS" -> StateNucleus(d, s)
    [] d.state = "COOLDOWN" -> StateCooldown(d)

\* The loop body for one sample; out holds the events written so far by
\* this call (events_written = Len(out)).
ProcessSample(d, s, out, max_events) ==
  LET d1 == FrontEnd(d, s)
      d2 == IF d1.config.realtime_mode = 1 /\ d1.rt_cal.is_calibrating = 1
              THEN update_rt_calibration(d1)
              ELSE d1
  IN IF d2.config.realtime_mode = 1 /\ d2.rt_cal.is_calibrating = 1
       THEN [d |-> d2, out |-> out]
       ELSE EmitLoop(StateMachine(d2, s), out, Len(out), max_events)

RECURSIVE ProcessLoop(_, _, _, _, _)
ProcessLoop(d, input, i, out, max_events) ==
  IF i > Len(input) THEN [d |-> d, out |-> out]
  ELSE LET r == ProcessSample(d, input[i], out, max_events)
       IN ProcessLoop(r.d, input, i + 1, r.out, max_events)

\* variant: every call restarts the state timer
syllable_process_restarts_timer(d, input, max_events) ==
  ProcessLoop([d EXCEPT !.state_timer = 0], input, 1, << >>, max_events)

syllable_process(d, input, max_events) ==
  ProcessLoop(d, input, 1, << >>, max_events)


-----------------------------------------------------------------------------
(* The detector driven through its API *)

VARIABLES
  det,      \* the detector; in SpecF0 its F0 smoothing fields only, in
            \* SpecVoicing its voicing fields only, in SpecContext the ring
            \* buffer indices and the locals of the context loop
            \* and in SpecStats the hop counters and the sample_count of
            \* the feature statistics
  out,      \* history: every event record returned by det since its last reset;
            \* in SpecF0 the epochs seen
  fed,      \* history: samples fed in this behaviour
  ret,      \* value returned by the last call (0 for the void calls)
  cap,      \* max_events of the last call (0 for calls without output array)
  ref,      \* a second detector, fed the same samples as det; in SpecSnr
            \* the snr_threshold_db the thresholds of det were finalized with
  rout,     \* history: every event record returned by ref
  twin,     \* "off": ref idle; "on": ref runs with det; "flushed": after flush
            \* in SpecIso the sequence of calls made on det and on ref
  trunc,    \* history: a process call of det stopped writing at max_events
  ctl       \* history: calls counted against MaxCtl or MaxDrain; in
            \* SpecChunk the syllable_process calls made on det; in SpecIso
            \* the calls made on ref (fed: the calls made on det)

vars == << det, out, fed, ret, cap, ref, rout, twin, trunc, ctl >>

OutCaps == {0, 1, PROMINENCE_BUFFER_SIZE}

SnrDbSet == {0}

ChunksOf(kinds) == UNION { [1 .. n -> kinds] : n \in 1 .. MaxChunk }

\* an event of d is due for emission by syllable_process
Eligible(d) ==
  d.buf_count > (IF d.config.realtime_mode = 1 THEN 0
                 ELSE d.config.context_size)

InitWith(cfgs, t) ==
  /\ \E cfg \in cfgs : det = syllable_create(cfg) /\ ref = det
  /\ out = << >>
  /\ rout = << >>
  /\ fed = 0
  /\ ret = 0
  /\ cap = 0
  /\ twin = t
  /\ trunc = FALSE
  /\ ctl = 0

Process(input, max_events) ==
  /\ twin = "off"
  /\ LET r == syllable_process(det, input, max_events)
     IN /\ det' = r.d
        /\ out' = out \o r.out
        /\ ret' = Len(r.out)
  /\ fed' = fed + Len(input)
  /\ cap' = max_events
  /\ UNCHANGED << ref, rout, twin, trunc, ctl >>

Flush(max_events) ==
  /\ twin = "off"
  /\ LET r == syllable_flush(det, max_events)
     IN /\ det' = r.d
        /\ out' = out \o r.out
        /\ ret' = Len(r.out)
  /\ cap' = max_events
  /\ UNCHANGED << fed, ref, rout, twin, trunc, ctl >>

SetRealtimeMode(enable) ==
  /\ twin = "off"
  /\ ctl < MaxCtl
  /\ det' = syllable_set_realtime_mode(det, enable)
  /\ ret' = 0
  /\ cap' = 0
  /\ ctl' = ctl + 1
  /\ UNCHANGED << out, fed, ref, rout, twin, trunc >>

Recalibrate ==
  /\ twin = "off"
  /\ ctl < MaxCtl
  /\ det' = syllable_recalibrate(det)
  /\ ret' = 0
  /\ cap' = 0
  /\ ctl' = ctl + 1
  /\ UNCHANGED << out, fed, ref, rout, twin, trunc >>

SetSnrThreshold(snr_db) ==
  /\ twin = "off"
  /\ ctl < MaxCtl
  /\ det' = syllable_set_snr_threshold(det, snr_db)
  /\ ret' = 0
  /\ cap' = 0
  /\ ctl' = ctl + 1
  /\ UNCHANGED << out, fed, ref, rout, twin, trunc >>

MainKinds == {Silence, Burst}

MainConfigs == ConfigsOf({50}, {1}, {0, 1})

Init == InitWith(MainConfigs, "off")

Next ==
  \/ \E input \in ChunksOf(MainKinds), max_events \in OutCaps :
        fed + Len(input) <= MaxSamples /\ Process(input, max_events)
  \/ \E max_events \in OutCaps : Flush(max_events)
  \/ \E enable \in {0, 1} : SetRealtimeMode(enable)
  \/ Recalibrate
  \/ \E snr_db \in SnrDbSet : SetSnrThreshold(snr_db)

Spec == Init /\ [][Next]_vars

-----------------------------------------------------------------------------
(* Minimum distance between syllables: offline and calibrated realtime *)

DistConfigs == ConfigsOf({50, 250}, {1}, {0})

InitDist == InitWith(DistConfigs, "off")

\* realtime mode is entered, if at all, before the first sample
NextDist ==
  \/ \E input \in ChunksOf(MainKinds) :
        /\ fed + Len(input) <= MaxDistSamples
        /\ Process(input, PROMINENCE_BUFFER_SIZE)
  \/ Flush(PROMINENCE_BUFFER_SIZE)
  \/ fed = 0 /\ SetRealtimeMode(1)

SpecDist == InitDist /\ [][NextDist]_vars

-----------------------------------------------------------------------------
(* Offline emission delay with two events of trailing context *)

OfflineConfigs == ConfigsOf({50}, {2}, {0})

InitOffline == InitWith(OfflineConfigs, "off")

NextOffline ==
  \/ \E input \in ChunksOf(MainKinds), max_events \in OutCaps :
        fed + Len(input) <= MaxOfflineSamples /\ Process(input, max_events)
  \/ \E max_events \in OutCaps : Flush(max_events)

SpecOffline == InitOffline /\ [][NextOffline]_vars

-----------------------------------------------------------------------------
(* The ring buffer under a caller that leaves events undelivered *)

\* one syllable of input: a burst and the silence that ends it
Syllable == << Burst, Silence, Silence, Silence >>

RingConfigs == ConfigsOf({50}, {1}, {0})

InitRing == InitWith(RingConfigs, "off")

\* syllable_process on one syllable; a call that passes room for events is
\* counted in ctl
RingProcess(max_events) ==
  /\ twin = "off"
  /\ fed < MaxRingCalls * Len(Syllable)
  /\ max_events > 0 => ctl < MaxDrain
  /\ LET r == syllable_process(det, Syllable, max_events)
     IN /\ det' = r.d
        /\ out' = out \o r.out
        /\ ret' = Len(r.out)
  /\ fed' = fed + Len(Syllable)
  /\ cap' = max_events
  /\ ctl' = IF max_events > 0 THEN ctl + 1 ELSE ctl
  /\ UNCHANGED << ref, rout, twin, trunc >>

RingFlush(max_events) ==
  /\ twin = "off"
  /\ ctl < MaxDrain
  /\ LET r == syllable_flush(det, max_events)
     IN /\ det' = r.d
        /\ out' = out \o r.out
        /\ ret' = Len(r.out)
  /\ cap' = max_events
  /\ ctl' = ctl + 1
  /\ UNCHANGED << fed, ref, rout, twin, trunc >>

NextRing ==
  \/ \E max_events \in OutCaps : RingProcess(max_events)
  \/ \E max_events \in OutCaps \ {0} : RingFlush(max_events)

SpecRing == InitRing /\ [][NextRing]_vars

-----------------------------------------------------------------------------
(* Reset against a fresh detector *)

ResetKinds == {Silence, Burst, VoicedOnset}

ResetConfigs == ConfigsOf({50}, {1}, {0})

\* the fields of SyllableEvent a caller reads; the score of an event without
\* ready neighbours is 0.5, below either accent threshold
Visible(rec) ==
  [ timestamp_samples |-> rec.event.timestamp_samples,
    duration |-> rec.event.duration,
    onset_type |-> rec.event.onset_type,
    context |-> rec.event.context,
    accent_thr |-> IF rec.event.context = << >> THEN 0
                   ELSE rec.event.accent_thr ]

VisibleSeq(recs) == [i \in 1 .. Len(recs) |-> Visible(recs[i])]

InitReset == InitWith(ResetConfigs, "off")

\* syllable_reset(det), beside ref = syllable_create(&config)
ResetPair ==
  /\ twin = "off"
  /\ det' = syllable_reset(det)
  /\ ref' = syllable_create(det.config)
  /\ out' = << >>
  /\ rout' = << >>
  /\ ret' = 0
  /\ cap' = 0
  /\ twin' = "on"
  /\ UNCHANGED << fed, trunc, ctl >>

\* the same syllable_process call on both detectors
SameProcess(input, max_events) ==
  /\ twin = "on"
  /\ LET r == syllable_process(det, input, max_events)
         q == syllable_process(ref, input, max_events)
     IN /\ det' = r.d
        /\ out' = out \o r.out
        /\ ret' = Len(r.out)
        /\ ref' = q.d
        /\ rout' = rout \o q.out
  /\ fed' = fed + Len(input)
  /\ cap' = max_events
  /\ UNCHANGED << twin, trunc, ctl >>

\* the same syllable_flush call on both detectors
SameFlush(max_events) ==
  /\ twin \in {"on", "flushed"}
  /\ LET r == syllable_flush(det, max_events)
         q == syllable_flush(ref, max_events)
     IN /\ det' = r.d
        /\ out' = out \o r.out
        /\ ret' = Len(r.out)
        /\ ref' = q.d
        /\ rout' = rout \o q.out
  /\ cap' = max_events
  /\ twin' = "flushed"
  /\ UNCHANGED << fed, trunc, ctl >>

NextReset ==
  \/ \E input \in ChunksOf(ResetKinds) :
        /\ fed + Len(input) <= MaxResetSamples
        /\ Process(input, PROMINENCE_BUFFER_SIZE)
  \/ Flush(PROMINENCE_BUFFER_SIZE)
  \/ ResetPair
  \/ \E input \in ChunksOf(ResetKinds) :
        /\ fed + Len(input) <= MaxResetSamples
        /\ SameProcess(input, PROMINENCE_BUFFER_SIZE)
  \/ SameFlush(PROMINENCE_BUFFER_SIZE)

SpecReset == InitReset /\ [][NextReset]_vars

-----------------------------------------------------------------------------
(* One input, two partitions into syllable_process calls *)

PairConfigs == ConfigsOf({50}, {1}, {0, 1})

\* input fed one sample per call, each call with room for every event
RECURSIVE FeedSingly(_, _, _, _)
FeedSingly(d, input, i, recs) ==
  IF i > Len(input) THEN [d |-> d, out |-> recs]
  ELSE LET r == syllable_process(d, << input[i] >>, PROMINENCE_BUFFER_SIZE)
       IN FeedSingly(r.d, input, i + 1, recs \o r.out)

InitChunk == InitWith(PairConfigs, "on")

\* det takes the block in one call of capacity max_events, ref takes it
\* sample by sample
ChunkProcess(input, max_events) ==
  /\ twin = "on"
  /\ LET r == syllable_process(det, input, max_events)
         q == FeedSingly(ref, input, 1, << >>)
     IN /\ det' = r.d
        /\ out' = out \o r.out
        /\ ret' = Len(r.out)
        /\ trunc' = (trunc \/ Eligible(r.d))
        /\ ref' = q.d
        /\ rout' = rout \o q.out
  /\ fed' = fed + Len(input)
  /\ cap' = max_events
  /\ ctl' = ctl + 1
  /\ UNCHANGED twin

\* end of input: ref is flushed in one call, det in calls of capacity
\* max_events
ChunkFlush(max_events) ==
  /\ twin \in {"on", "flushed"}
  /\ LET r == syllable_flush(det, max_events)
         q == syllable_flush(ref, PROMINENCE_BUFFER_SIZE)
     IN /\ det' = r.d
        /\ out' = out \o r.out
        /\ ret' = Len(r.out)
        /\ ref' = q.d
        /\ rout' = rout \o q.out
  /\ cap' = max_events
  /\ twin' = "flushed"
  /\ UNCHANGED << fed, trunc, ctl >>

NextChunk ==
  \/ \E input \in ChunksOf(MainKinds), max_events \in OutCaps :
        fed + Len(input) <= MaxPairSamples /\ ChunkProcess(input, max_events)
  \/ \E max_events \in OutCaps \ {0} : ChunkFlush(max_events)

SpecChunk == InitChunk /\ [][NextChunk]_vars

-----------------------------------------------------------------------------
(* Properties *)

Min(a, b) == IF a < b THEN a ELSE b

\* push positions of the events returned so far
OutSeqs(recs) == [i \in 1 .. Len(recs) |-> recs[i].event.h_seq]

\* push positions of the pending events, oldest first (from buf_read_idx)
PendingSeqs(d) ==
  [i \in 1 .. d.buf_count |->
     d.event_buffer[(d.buf_read_idx + i - 1) % PROMINENCE_BUFFER_SIZE]
       .event.h_seq]

\* q is a run of consecutive push positions that ends at last
Consecutive(q, last) == \A i \in 1 .. Len(q) : q[i] = last - Len(q) + i

\* C1: the events returned by syllable_process and syllable_flush, in the
\* order they are written across all calls, have strictly increasing
\* timestamp_samples, with set_realtime_mode, recalibrate and
\* set_snr_threshold calls interleaved.
C1_TimestampsIncrease ==
  \A i \in 1 .. (Len(out) - 1) :
     out[i].event.timestamp_samples < out[i + 1].event.timestamp_samples

\* two events, the first returned by process in one mode and the second by
\* flush in the other mode, with control calls in between
C1_Witness ==
  /\ Len(out) >= 2
  /\ ctl >= 1
  /\ out[1].via = "process"
  /\ out[2].via = "flush"
  /\ out[1].rt # out[2].rt

\* C2: two events emitted one after the other have timestamp_samples that
\* differ by at least min_syllable_dist_ms * sample_rate / 1000 samples,
\* offline and in realtime mode, for every min_syllable_dist_ms.
C2_MinDistance ==
  \A i \in 1 .. (Len(out) - 1) :
     1000 * (out[i + 1].event.timestamp_samples
               - out[i].event.timestamp_samples)
       >= det.config.min_syllable_dist_ms * det.config.sample_rate

\* two events in calibrated realtime mode with a distance longer than the
\* state timeouts
C2_Witness ==
  /\ Len(out) >= 2
  /\ out[1].rt = 1
  /\ out[2].rt = 1
  /\ det.config.min_syllable_dist_ms > NUCLEUS_MS
  /\ out[1].event.h_thresh = "default"

\* C3: in every state in which syllable_is_calibrating returns 1, a
\* syllable_process call returns 0 and writes no event.
C3_CalibratingReturnsZero ==
  [][(syllable_is_calibrating(det) = 1 /\ fed' > fed)
        => (ret' = 0 /\ out' = out)]_vars

\* C4: events leave the ring buffer in the order in which they were pushed,
\* also after the indices have wrapped and after overflow dropped events.
C4_Fifo ==
  \A i \in 1 .. (Len(out) - 1) :
     out[i].event.h_seq < out[i + 1].event.h_seq

\* events returned after an overflow, the last one pushed after the write
\* index wrapped
C4_Witness ==
  /\ det.h_dropped > 0
  /\ Len(out) >= 2
  /\ out[Len(out)].event.h_seq > PROMINENCE_BUFFER_SIZE

\* C5: offline, syllable_process emits the oldest event only when the buffer
\* holds more than context_size events, that is after at least context_size
\* later events were finalized; only syllable_flush emits with less.
C5_TrailingContext ==
  \A i \in 1 .. Len(out) :
     (out[i].via = "process" /\ out[i].rt = 0)
        => /\ out[i].pending > det.config.context_size
           /\ out[i].newer >= det.config.context_size

\* the first event left through process after the third was finalized, a
\* later one left through flush with less trailing context
C5_Witness ==
  /\ det.config.context_size = 2
  /\ Len(out) >= 2
  /\ out[1].via = "process"
  /\ out[1].newer = 2
  /\ \E j \in 2 .. Len(out) : out[j].via = "flush" /\ out[j].newer < 2

\* what one call wrote: at most max_events events, as many as it returned,
\* appended to what was returned before; they are the oldest pending events
\* in push order and the events left in the buffer follow them in push
\* order; syllable_flush leaves an event behind only for lack of room, and
\* so does syllable_process with an event that is due
DeliveryStep ==
  /\ ret' = Len(out') - Len(out)
  /\ 0 <= ret'
  /\ ret' <= cap'
  /\ SubSeq(out', 1, Len(out)) = out
  /\ Consecutive(OutSeqs(SubSeq(out', Len(out) + 1, Len(out')))
                   \o PendingSeqs(det'),
                 det'.h_pushed)
  /\ (fed' = fed) => (ret' = Min(cap', det.buf_count))
  /\ (fed' > fed /\ ret' < cap') => ~Eligible(det')

\* C6: syllable_process and syllable_flush write at most max_events events
\* and return the number written; the events left for lack of room stay in
\* the ring buffer in order and subsequent calls deliver them, except those
\* that a ring-buffer overflow discards first.
C6_Delivery ==
  [][/\ DeliveryStep
     /\ Len(out') + det'.buf_count + det'.h_dropped = det'.h_pushed]_vars

\* C6 as claimed: every event left for lack of room stays in the ring
\* buffer until a subsequent call delivers it.
C6_NoEventLost ==
  [][/\ DeliveryStep
     /\ Len(out') + det'.buf_count = det'.h_pushed]_vars

\* after an overflow, a call of capacity 1 returned one event and left
\* others pending, an earlier call having returned the event before it
C6_Witness ==
  /\ cap = 1
  /\ ret = 1
  /\ det.buf_count >= 1
  /\ Len(out) >= 2
  /\ out[Len(out)].pending >= 2
  /\ det.h_dropped >= 1

\* the call with no room for events that finalizes an event while 16 are
\* pending
PushAtFull ==
  /\ det.buf_count = PROMINENCE_BUFFER_SIZE
  /\ cap' = 0
  /\ det'.h_pushed = det.h_pushed + 1

\* C7: 0 <= buf_count <= 16 in every state; when an event is finalized while
\* 16 events are pending, exactly the oldest pending event is discarded, the
\* read index advances by one slot, the new event is stored and the call
\* reports no error.
C7_BoundedOverflow ==
  [][/\ det'.buf_count >= 0
     /\ det'.buf_count <= PROMINENCE_BUFFER_SIZE
     /\ PushAtFull =>
          /\ det'.buf_count = PROMINENCE_BUFFER_SIZE
          /\ det'.buf_read_idx =
                (det.buf_read_idx + 1) % PROMINENCE_BUFFER_SIZE
          /\ PendingSeqs(det') =
                Tail(PendingSeqs(det)) \o << det.h_pushed + 1 >>
          /\ det'.h_dropped = det.h_dropped + 1
          /\ ret' = 0]_vars

\* an overflow has happened and the buffer is full
C7_Witness ==
  /\ det.h_dropped >= 1
  /\ det.buf_count = PROMINENCE_BUFFER_SIZE
  /\ ret = 0
  /\ cap = 0

\* C8: reset followed by an input sequence (and flush) emits the same events
\* as a freshly created detector with the same configuration.
C8_ResetAsFresh ==
  twin \in {"on", "flushed"} => VisibleSeq(out) = VisibleSeq(rout)

\* C9: every partition of the input into syllable_process calls, then flush,
\* yields the same events with the same field values, provided no
\* syllable_process call stops writing at max_events while an event is due.
C9_PartitionInvariant ==
  (~trunc /\ det.buf_count = ref.buf_count)
     => VisibleSeq(out) = VisibleSeq(rout)

\* C9 as claimed: the same events whatever the per-call output capacity.
C9_AnyCapacity ==
  (twin = "flushed" /\ det.buf_count = 0)
     => VisibleSeq(out) = VisibleSeq(rout)

\* input taken in fewer calls than samples, never cut short by max_events,
\* flushed to the end in calls of capacity 1, two events or more returned
C9_Witness ==
  /\ twin = "flushed"
  /\ ~trunc
  /\ ctl < fed
  /\ cap = 1
  /\ det.buf_count = 0
  /\ Len(out) >= 2

\* C10: whenever realtime mode is enabled the detector is calibrating until
\* calibration_duration_ms of samples is processed, and no onset is detected
\* in realtime mode with thresholds not set by a completed calibration.
C10_RealtimeCalibrated ==
  /\ (det.config.realtime_mode = 1 /\ det.rt_cal.thresh = "zero")
        => syllable_is_calibrating(det) = 1
  /\ det.wip_event.h_thresh # "zero"
  /\ \A i \in 1 .. Len(out) : out[i].event.h_thresh # "zero"

-----------------------------------------------------------------------------
(* Calibration *)

\* the step is a call of syllable_recalibrate or syllable_set_realtime_mode(1)
CalibrationStart ==
  /\ ctl' = ctl + 1
  /\ \/ det' = syllable_recalibrate(det)
     \/ det' = syllable_set_realtime_mode(det, 1)

\* C11: syllable_recalibrate and syllable_set_realtime_mode(1) turn realtime
\* mode on, set is_calibrating and discard the samples collected so far; from
\* then on every processed sample counts towards target_samples =
\* calibration_duration_ms * sample_rate / 1000, is_calibrating falls exactly
\* when that many samples have been processed since the call, and it rises
\* only by another such call.
C11_CalibrationTerminates ==
  [][ /\ CalibrationStart =>
           /\ det'.config.realtime_mode = 1
           /\ syllable_is_calibrating(det') = 1
           /\ det'.rt_cal.sample_count = 0
           /\ det'.rt_cal.buf_idx = 0
           /\ det'.rt_cal.target_samples =
                 MsToSamples(det.config.calibration_duration_ms,
                             det.config.sample_rate)
      /\ (syllable_is_calibrating(det) = 1 /\ fed' > fed) =>
           LET processed == det.rt_cal.sample_count + (fed' - fed)
           IN IF processed >= det.rt_cal.target_samples
                THEN syllable_is_calibrating(det') = 0
                ELSE /\ syllable_is_calibrating(det') = 1
                     /\ det'.rt_cal.sample_count = processed
      /\ (syllable_is_calibrating(det) = 0
            /\ syllable_is_calibrating(det') = 1) => CalibrationStart
    ]_vars

-----------------------------------------------------------------------------
(* Emission in realtime mode *)

\* C12: in realtime mode with calibration finished, a syllable_process call
\* that ends with room left in the output array leaves the ring buffer empty
\* and has returned every event finalized during the call, each written in
\* the sample iteration that pushed it: it was the only pending event and no
\* later event had been finalized.
C12_ImmediateEmission ==
  [][ ( /\ fed' > fed
        /\ det'.config.realtime_mode = 1
        /\ syllable_is_calibrating(det') = 0
        /\ ret' < cap' ) =>
      /\ det'.buf_count = 0
      /\ \A k \in (det.h_pushed + 1) .. det'.h_pushed :
           \E i \in (Len(out) + 1) .. Len(out') :
              /\ out'[i].event.h_seq = k
              /\ out'[i].via = "process"
              /\ out'[i].pending = 1
              /\ out'[i].newer = 0
    ]_vars

\* the call that finalized an event after a completed calibration returned it
C12_Witness ==
  /\ det.config.realtime_mode = 1
  /\ syllable_is_calibrating(det) = 0
  /\ det.rt_cal.thresh = "default"
  /\ det.last_event_samples = det.total_samples
  /\ det.state = "COOLDOWN"
  /\ ret = 1
  /\ cap = PROMINENCE_BUFFER_SIZE
  /\ det.buf_count = 0
  /\ out[Len(out)].event.h_seq = det.h_pushed
  /\ out[Len(out)].event.h_thresh = "default"
  /\ out[Len(out)].event.timestamp_samples + out[Len(out)].event.duration
        = det.total_samples

-----------------------------------------------------------------------------
(* The state machine, one sample per syllable_process call *)

MachineKinds == {Silence, Burst, VoicedOnset, VoicedHold}

MachineConfigs == ConfigsOf({50}, {1}, {0})

InitMachine == InitWith(MachineConfigs, "off")

NextMachine ==
  \/ \E s \in MachineKinds, max_events \in {0, PROMINENCE_BUFFER_SIZE} :
        fed < MaxMachineSamples /\ Process(<< s >>, max_events)
  \/ Flush(PROMINENCE_BUFFER_SIZE)

SpecMachine == InitMachine /\ [][NextMachine]_vars

\* wip_event was initialized by an onset and is not finalized: duration_s is
\* 0 from the onset until the NUCLEUS exit writes it
UnderConstruction(d) ==
  d.wip_event.h_thresh # "none" /\ d.wip_event.duration = 0

Building == {"ONSET_RISING", "NUCLEUS"}

\* C13: an event is under construction iff the state is ONSET_RISING or
\* NUCLEUS; it is created only by the transition IDLE -> ONSET_RISING and
\* ceases to exist only when the machine leaves NUCLEUS, pushed to the ring
\* buffer.
C13_OneEventUnderConstruction ==
  [][ fed' = fed + 1 =>
      /\ UnderConstruction(det') <=> det'.state \in Building
      /\ (det'.wip_event.timestamp_samples # det.wip_event.timestamp_samples
            \/ (~UnderConstruction(det) /\ UnderConstruction(det')))
           => (det.state = "IDLE" /\ det'.state = "ONSET_RISING")
      /\ (det.state \in Building /\ det'.state \notin Building)
           => (det.state = "NUCLEUS" /\ det'.h_pushed = det.h_pushed + 1)
    ]_vars

\* the transitions of the state table (DESIGN.md 3.3)
StateTable ==
  { << "IDLE", "ONSET_RISING" >>,
    << "ONSET_RISING", "NUCLEUS" >>,
    << "NUCLEUS", "COOLDOWN" >>,
    << "COOLDOWN", "IDLE" >> }

\* C19: a sample processed by syllable_process changes the state only along
\* IDLE -> ONSET_RISING, ONSET_RISING -> NUCLEUS, NUCLEUS -> COOLDOWN and
\* COOLDOWN -> IDLE; no change skips NUCLEUS.
C19_TableTransitionsOnly ==
  [][ (fed' = fed + 1 /\ det'.state # det.state)
         => << det.state, det'.state >> \in StateTable ]_vars

\* C20: every onset is finalized as an event: ONSET_RISING is left only to
\* NUCLEUS (also when voicing is lost on a VOICED onset), NUCLEUS is left
\* only to COOLDOWN with one push of the event built since the onset, and no
\* other sample pushes; so each IDLE -> ONSET_RISING transition is followed
\* by exactly one push before the machine is IDLE again.
C20_EveryOnsetFinalized ==
  [][ fed' = fed + 1 =>
      /\ det.state = "ONSET_RISING" =>
           /\ det'.state \in Building
           /\ det'.h_pushed = det.h_pushed
      /\ det.state = "NUCLEUS" =>
           \/ det'.state = "NUCLEUS" /\ det'.h_pushed = det.h_pushed
           \/ /\ det'.state = "COOLDOWN"
              /\ det'.h_pushed = det.h_pushed + 1
              /\ det'.wip_event.timestamp_samples = det.onset_timestamp
              /\ det'.last_event_samples = det'.total_samples
      /\ det.state \in {"IDLE", "COOLDOWN"} =>
           /\ det'.state \in {det.state,
                              IF det.state = "IDLE" THEN "ONSET_RISING"
                                                    ELSE "IDLE"}
           /\ det'.h_pushed = det.h_pushed
    ]_vars

-----------------------------------------------------------------------------
(* Construction with an allocator that can fail *)

\* the null pointer
NULL == [null |-> TRUE]

\* sub-modules allocated by syllable_create under the default configuration
\* (enable_spectral_flux, enable_high_freq_energy, enable_mfcc_delta,
\* enable_wavelet, enable_agc = 1), and the trend buffer of zff_init
SubModules ==
  {"zff.trend_buffer", "spectral_flux", "high_freq_energy", "mfcc",
   "wavelet", "agc"}

AllocSites == {"detector"} \cup SubModules

\* syllable_create when the allocator returns NULL at the sites in fails:
\* a sub-module whose allocation fails returns NULL from its create function
\* and the pointer is stored unchecked; modules holds the non-null ones
syllable_create_alloc(cfg, fails) ==
  IF "detector" \in fails THEN NULL
  ELSE LET d == syllable_create(cfg)
       IN [f \in DOMAIN d \cup {"modules"} |->
             IF f = "modules" THEN SubModules \ fails ELSE d[f]]

InitAlloc ==
  /\ \E cfg \in MainConfigs, fails \in SUBSET AllocSites :
        det = syllable_create_alloc(cfg, fails)
  /\ ref = NULL
  /\ out = << >>
  /\ rout = << >>
  /\ fed = 0
  /\ ret = 0
  /\ cap = 0
  /\ twin = "off"
  /\ trunc = FALSE
  /\ ctl = 0

NextAlloc ==
  \/ \E s \in MainKinds :
        /\ det # NULL
        /\ fed < MaxAllocSamples
        /\ Process(<< s >>, PROMINENCE_BUFFER_SIZE)
  \/ det # NULL /\ Flush(PROMINENCE_BUFFER_SIZE)

SpecAlloc == InitAlloc /\ [][NextAlloc]_vars

\* C14: if the allocator returned NULL for any allocation requested during
\* construction, syllable_create returned NULL: a detector that was returned
\* holds every sub-module it asked for.
C14_CreateNullOnAllocFailure ==
  det # NULL => det.modules = SubModules

-----------------------------------------------------------------------------
(* Two detectors with one configuration, called in any interleaving *)

RecalibrateCall == [call |-> "syllable_recalibrate"]

IsoCalls == MainKinds \cup {RecalibrateCall}

\* the k-th call of the sequence, made on detector d: syllable_process on
\* one sample or syllable_recalibrate, and syllable_flush at the end
IsoCall(d, calls, k) ==
  IF k > Len(calls) THEN syllable_flush(d, PROMINENCE_BUFFER_SIZE)
  ELSE IF calls[k] \in MainKinds
    THEN syllable_process(d, << calls[k] >>, PROMINENCE_BUFFER_SIZE)
    ELSE [d |-> syllable_recalibrate(d), out |-> << >>]

\* variant: the sample clock is shared by all detectors of the process
CallOn_shared_clock(d, other, calls, k) ==
  LET r == IsoCall(d, calls, k)
  IN [ self |-> r.d,
       out |-> r.out,
       other |-> [other EXCEPT !.total_samples =
                                  @ + (r.d.total_samples - d.total_samples)] ]

\* A call on detector d while detector other exists: every variable the
\* call reads or writes is a field of *d (the file has no static or global
\* variable), so other is left as it was.
CallOn(d, other, calls, k) ==
  LET r == IsoCall(d, calls, k)
  IN [self |-> r.d, out |-> r.out, other |-> other]

InitIso ==
  /\ \E cfg \in MainConfigs : det = syllable_create(cfg) /\ ref = det
  /\ twin \in [1 .. MaxIsoCalls -> IsoCalls]
  /\ out = << >>
  /\ rout = << >>
  /\ fed = 0
  /\ ret = 0
  /\ cap = 0
  /\ trunc = FALSE
  /\ ctl = 0

IsoDet ==
  /\ fed <= Len(twin)
  /\ LET r == CallOn(det, ref, twin, fed + 1)
     IN /\ det' = r.self
        /\ ref' = r.other
        /\ out' = out \o r.out
        /\ ret' = Len(r.out)
  /\ fed' = fed + 1
  /\ cap' = PROMINENCE_BUFFER_SIZE
  /\ UNCHANGED << rout, twin, trunc, ctl >>

IsoRef ==
  /\ ctl <= Len(twin)
  /\ LET r == CallOn(ref, det, twin, ctl + 1)
     IN /\ ref' = r.self
        /\ det' = r.other
        /\ rout' = rout \o r.out
  /\ ctl' = ctl + 1
  /\ UNCHANGED << out, fed, ret, cap, twin, trunc >>

NextIso == IsoDet \/ IsoRef

SpecIso == InitIso /\ [][NextIso]_vars

-----------------------------------------------------------------------------
(* Every operation of the API, in any order *)

Reset ==
  /\ twin = "off"
  /\ ctl < MaxCtl
  /\ det' = syllable_reset(det)
  /\ out' = << >>
  /\ ret' = 0
  /\ cap' = 0
  /\ ctl' = ctl + 1
  /\ UNCHANGED << fed, ref, rout, twin, trunc >>

InitApi == InitWith(MainConfigs, "off")

NextApi ==
  \/ \E input \in ChunksOf(MainKinds),
        max_events \in {0, PROMINENCE_BUFFER_SIZE} :
        fed + Len(input) <= MaxApiSamples /\ Process(input, max_events)
  \/ Flush(PROMINENCE_BUFFER_SIZE)
  \/ \E enable \in {0, 1} : SetRealtimeMode(enable)
  \/ Recalibrate
  \/ \E snr_db \in SnrDbSet : SetSnrThreshold(snr_db)
  \/ Reset

SpecApi == InitApi /\ [][NextApi]_vars

\* C16: syllable_process adds exactly one to total_samples for each input
\* sample it consumes, calibrating or not; syllable_reset sets the counter
\* to 0; syllable_flush, syllable_set_realtime_mode, syllable_recalibrate
\* and syllable_set_snr_threshold leave it unchanged.
C16_SampleCounter ==
  [][ /\ fed' > fed => det'.total_samples = det.total_samples + (fed' - fed)
      /\ fed' = fed =>
           \/ det'.total_samples = det.total_samples
           \/ det' = syllable_reset(det) /\ det'.total_samples = 0
    ]_vars

\* a sample counted during calibration, after a reset that followed two
\* samples
C16_Witness ==
  /\ fed = 3
  /\ det.total_samples = 1
  /\ syllable_is_calibrating(det) = 1
  /\ det.config.realtime_mode = 1
  /\ det.rt_cal.sample_count = 1

-----------------------------------------------------------------------------
(* All-zero input *)

ZeroKinds == {Silence, SilenceHeld}

InitZero == InitWith(MainConfigs, "off")

NextZero ==
  \/ \E input \in ChunksOf(ZeroKinds),
        max_events \in {0, PROMINENCE_BUFFER_SIZE} :
        fed + Len(input) <= MaxZeroSamples /\ Process(input, max_events)
  \/ Flush(PROMINENCE_BUFFER_SIZE)
  \/ SetRealtimeMode(1)
  \/ Recalibrate

SpecZero == InitZero /\ [][NextZero]_vars

-----------------------------------------------------------------------------
(* Offline fusion score *)

OptionalFeatures == {"spectral_flux", "high_freq_energy", "mfcc", "wavelet"}

Features == {"peak_rate"} \cup OptionalFeatures

Terms == Features \cup {"voiced_bonus"}

\* syllable_default_config: the weights, in hundredths
DefaultWeight ==
  [ peak_rate |-> 30, spectral_flux |-> 25, high_freq_energy |-> 15,
    mfcc |-> 10, wavelet |-> 20, voiced_bonus |-> 10 ]

\* variant: the weight of spectral flux enters the total when it is disabled
compute_fusion_score_total_of_all(d) ==
  IF d.config.realtime_mode = 1 THEN [path |-> "realtime"]
  ELSE IF d.weak_signal = 1 THEN [path |-> "gated"]
  ELSE
    LET on(f) == f \in d.modules
        norm(f) == IF f = "peak_rate" \/ on(f) THEN d.norm[f] ELSE 0
        w(t) == d.config.weight[t]
        add(acc, f) ==
          IF on(f) THEN [avg |-> acc.avg + w(f) * norm(f),
                         total |-> acc.total + w(f)]
                   ELSE acc
        a0 == [avg |-> w("peak_rate") * norm("peak_rate"),
               total |-> w("peak_rate") + w("spectral_flux")]
        a1 == [avg |-> a0.avg + (IF on("spectral_flux")
                                   THEN w("spectral_flux")
                                        * norm("spectral_flux") ELSE 0),
               total |-> a0.total]
        a2 == add(a1, "high_freq_energy")
        a3 == add(a2, "mfcc")
        a4 == add(a3, "wavelet")
        a5 == [avg |-> a4.avg + w("voiced_bonus") * d.is_voiced,
               total |-> a4.total + w("voiced_bonus")]
        mx(acc, f) == IF on(f) /\ norm(f) > acc THEN norm(f) ELSE acc
        max_feature == mx(mx(mx(mx(norm("peak_rate"), "spectral_flux"),
                                "high_freq_energy"), "mfcc"), "wavelet")
        cf(acc, f) == IF on(f) THEN << acc[1] + d.conf[f], acc[2] + 1 >>
                      ELSE acc
        conf == cf(cf(cf(<< d.conf["peak_rate"], 1 >>, "spectral_flux"),
                      "high_freq_energy"), "mfcc")
    IN [ path |-> "offline",
         weighted_avg |-> << a5.avg, IF a5.total > 0 THEN a5.total ELSE 1 >>,
         w_total |-> a5.total,
         max_feature |-> max_feature,
         avg_confidence |-> conf ]

\* compute_fusion_score. The detector is reduced to what the function reads:
\* modules (the non-null feature extractors), norm (the results of
\* normalize_feature_sigmoid, 0 or 1), conf (its confidences, in tenths),
\* weak_signal (the energy gate), is_voiced and the weights. The result keeps
\* weighted_avg and avg_confidence as numerator and denominator; the blend
\* alpha * max_feature + (1 - alpha) * weighted_avg and the confidence
\* penalty are functions of the fields returned.
compute_fusion_score(d) ==
  IF d.config.realtime_mode = 1 THEN [path |-> "realtime"]
  ELSE IF d.weak_signal = 1 THEN [path |-> "gated"]
  ELSE
    LET on(f) == f \in d.modules
        norm(f) == IF f = "peak_rate" \/ on(f) THEN d.norm[f] ELSE 0
        w(t) == d.config.weight[t]
        add(acc, f) ==
          IF on(f) THEN [avg |-> acc.avg + w(f) * norm(f),
                         total |-> acc.total + w(f)]
                   ELSE acc
        a0 == [avg |-> w("peak_rate") * norm("peak_rate"),
               total |-> w("peak_rate")]
        a1 == add(a0, "spectral_flux")
        a2 == add(a1, "high_freq_energy")
        a3 == add(a2, "mfcc")
        a4 == add(a3, "wavelet")
        a5 == [avg |-> a4.avg + w("voiced_bonus") * d.is_voiced,
               total |-> a4.total + w("voiced_bonus")]
        mx(acc, f) == IF on(f) /\ norm(f) > acc THEN norm(f) ELSE acc
        max_feature == mx(mx(mx(mx(norm("peak_rate"), "spectral_flux"),
                                "high_freq_energy"), "mfcc"), "wavelet")
        cf(acc, f) == IF on(f) THEN << acc[1] + d.conf[f], acc[2] + 1 >>
                      ELSE acc
        conf == cf(cf(cf(<< d.conf["peak_rate"], 1 >>, "spectral_flux"),
                      "high_freq_energy"), "mfcc")
    IN [ path |-> "offline",
         weighted_avg |-> << a5.avg, IF a5.total > 0 THEN a5.total ELSE 1 >>,
         w_total |-> a5.total,
         max_feature |-> max_feature,
         avg_confidence |-> conf ]

\* weights: the defaults, with weight_peak_rate and weight_voiced_bonus
\* possibly set to 0
FusionWeights ==
  { [DefaultWeight EXCEPT !.peak_rate = p, !.voiced_bonus = b] :
      p \in {0, DefaultWeight.peak_rate},
      b \in {0, DefaultWeight.voiced_bonus} }

FusionConfs ==
  { [f \in Features \ {"wavelet"} |->
        IF f = "peak_rate" THEN p ELSE o] : p \in {1, 10}, o \in {1, 10} }

FusionInputs ==
  [ config : [realtime_mode : {0}, weight : FusionWeights],
    modules : SUBSET OptionalFeatures,
    is_voiced : {0, 1},
    weak_signal : {0, 1},
    norm : [Features -> {0, 1}],
    conf : FusionConfs ]

InitFusion ==
  /\ det \in FusionInputs
  /\ ref = NULL
  /\ out = << >>
  /\ rout = << >>
  /\ fed = 0
  /\ ret = 0
  /\ cap = 0
  /\ twin = "off"
  /\ trunc = FALSE
  /\ ctl = 0

\* 4. Compute Fusion Score
Fuse ==
  /\ ctl = 0
  /\ ret' = compute_fusion_score(det)
  /\ ctl' = 1
  /\ UNCHANGED << det, out, fed, cap, ref, rout, twin, trunc >>

NextFusion == Fuse

SpecFusion == InitFusion /\ [][NextFusion]_vars

RECURSIVE SumOver(_, _)
SumOver(S, F) ==
  IF S = {} THEN 0
  ELSE LET x == CHOOSE y \in S : TRUE
       IN F[x] + SumOver(S \ {x}, F)

\* the terms of the weighted average when the features in d.modules are on
EnabledTerms(d) == {"peak_rate", "voiced_bonus"} \cup d.modules

\* C18: whatever optional features are disabled, the weights of the
\* remaining terms, each divided by the normalizing total, sum to 1 (the
\* total is the sum of the enabled weights, and the division is made
\* whenever it is positive); the weighted average is taken over the
\* enabled terms, the max term over peak rate and the enabled features; and
\* neither the value nor the weight nor the confidence of a disabled feature
\* changes the result.
C18_EnabledWeightsOnly ==
  (ctl = 1 /\ ret.path = "offline") =>
    LET value == [t \in Terms |->
                    IF t = "voiced_bonus" THEN det.is_voiced ELSE det.norm[t]]
        en == EnabledTerms(det)
    IN /\ ret.w_total = SumOver(en, det.config.weight)
       /\ ret.w_total > 0 =>
            /\ ret.weighted_avg[2] = ret.w_total
            /\ SumOver(en, det.config.weight) = ret.weighted_avg[2]
       /\ ret.weighted_avg[1] =
            SumOver(en, [t \in Terms |-> det.config.weight[t] * value[t]])
       /\ \A f \in en \ {"voiced_bonus"} : ret.max_feature >= det.norm[f]
       /\ \E f \in en \ {"voiced_bonus"} : ret.max_feature = det.norm[f]
       /\ \A f \in OptionalFeatures \ det.modules :
            \A v \in {0, 1}, wt \in {0, DefaultWeight[f]}, c \in {1, 10} :
               compute_fusion_score(
                 [det EXCEPT !.norm[f] = v,
                             !.config.weight[f] = wt,
                             !.conf = IF f \in DOMAIN det.conf
                                        THEN [@ EXCEPT ![f] = c] ELSE @])
                 = ret

\* spectral flux and wavelet disabled while their values are high: the
\* total is 30 + 15 + 10 + 10 and the max term is 0
C18_Witness ==
  /\ ctl = 1
  /\ ret.path = "offline"
  /\ det.modules = {"high_freq_energy", "mfcc"}
  /\ det.norm = [f \in Features |->
                   IF f \in {"spectral_flux", "wavelet"} THEN 1 ELSE 0]
  /\ det.is_voiced = 1
  /\ ret.w_total = 65
  /\ ret.weighted_avg = << 10, 65 >>
  /\ ret.max_feature = 0

-----------------------------------------------------------------------------
(* C21: duration of COOLDOWN *)

\* the sample just processed took the machine from COOLDOWN to IDLE, and the
\* COOLDOWN followed the finalization of an event (last_event_samples is the
\* sample of the NUCLEUS -> COOLDOWN transition of the latest onset)
CooldownEnds ==
  /\ fed' = fed + 1
  /\ det.state = "COOLDOWN"
  /\ det'.state = "IDLE"
  /\ det.last_event_samples > det.onset_timestamp

\* C21: the state timer counts the samples spent in the current state, so
\* after an event is finalized the detector stays in COOLDOWN for more than
\* min_syllable_dist_ms * sample_rate / 1000 samples before it is IDLE again.
C21_CooldownLastsMinDist ==
  [][ CooldownEnds =>
        /\ det'.state_timer = det'.total_samples - det.last_event_samples
        /\ det'.total_samples - det.last_event_samples > MinDistSamples(det)
    ]_vars

-----------------------------------------------------------------------------
(* C22: a syllable in flight ends within a bounded number of samples *)

FlightKinds == {Silence, Burst, VoicedHold}

FlightConfigs == ConfigsOf({50, 250}, {1}, {0, 1})

InitFlight == InitWith(FlightConfigs, "off")

NextFlight ==
  \/ \E s \in FlightKinds :
        fed < MaxFlightSamples /\ Process(<< s >>, PROMINENCE_BUFFER_SIZE)
  \/ Recalibrate

SpecFlight == InitFlight /\ [][NextFlight]_vars

\* the calibration skip is not taken for the next sample
NotCalibrating(d) ==
  ~ (d.config.realtime_mode = 1 /\ d.rt_cal.is_calibrating = 1)

Max(a, b) == IF a > b THEN a ELSE b

\* the largest value of state_timer outside IDLE: ONSET_RISING is left at
\* max_onset_rising_samples + 1 at the latest, NUCLEUS one sample later or
\* at max_nucleus_samples + 1, COOLDOWN one sample later or at
\* min_dist_samples + 1
FlightBound(d) ==
  Max(Max(d.max_onset_rising_samples + 2, MaxNucleusSamples(d) + 1),
      MinDistSamples(d))

\* C22: while the detector is not calibrating every processed sample
\* advances a syllable in flight: ONSET_RISING is left after at most
\* max_onset_rising_samples + 1 samples, NUCLEUS no later than when the
\* timer exceeds 0.1 * sample_rate, COOLDOWN when it exceeds
\* min_dist_samples; the state never goes back to an earlier non-IDLE state
\* and the timer outside IDLE is bounded, so IDLE is reached again within
\* FlightBound + 1 samples whatever the signal.
C22_BoundedInFlight ==
  [][ (fed' = fed + 1 /\ det.state # "IDLE" /\ NotCalibrating(det)) =>
        /\ det'.state_timer = det.state_timer + 1
        /\ det.state = "ONSET_RISING" =>
              /\ det'.state \in {"ONSET_RISING", "NUCLEUS", "COOLDOWN"}
              /\ det'.state = "ONSET_RISING" =>
                    det'.state_timer <= det.max_onset_rising_samples
        /\ det.state = "NUCLEUS" =>
              /\ det'.state \in {"NUCLEUS", "COOLDOWN"}
              /\ det'.state = "NUCLEUS" =>
                    det'.state_timer <= MaxNucleusSamples(det)
        /\ det.state = "COOLDOWN" =>
              /\ det'.state \in {"COOLDOWN", "IDLE"}
              /\ det'.state = "COOLDOWN" =>
                    det'.state_timer <= MinDistSamples(det)
        /\ det'.state # "IDLE" => det'.state_timer <= FlightBound(det)
    ]_vars

\* a realtime detector, calibrated, whose NUCLEUS ended by the timeout on a
\* signal that never dropped, and which is still in COOLDOWN
C22_Witness ==
  /\ det.config.realtime_mode = 1
  /\ det.rt_cal.thresh # "zero"
  /\ det.state = "COOLDOWN"
  /\ det.h_pushed = 1
  /\ det.state_timer = MaxNucleusSamples(det) + 1
  /\ det.event_buffer[0].event.duration = MaxNucleusSamples(det) + 1

-----------------------------------------------------------------------------
(* C23: the neighbours an emitted event is scored against *)

\* the events read by calculate_prominence / calculate_delta_f0, by timestamp
ContextSet(rec) ==
  { rec.event.context[j] : j \in 1 .. Len(rec.event.context) }

\* the records returned so far of the events finalized within n pushes
\* before, respectively after, the event of rec
EmittedBefore(rec, n) ==
  { out[j] : j \in { i \in 1 .. Len(out) :
                       /\ out[i].event.h_seq < rec.event.h_seq
                       /\ out[i].event.h_seq >= rec.event.h_seq - n } }

\* C23: an emitted event is scored against its neighbours on both sides:
\* the (up to context_size) events finalized before it and the (up to
\* context_size) events finalized after it that exist when it is emitted.
C23_ContextBothSides ==
  \A i \in 1 .. Len(out) :
     LET rec == out[i]
         n == det.config.context_size
     IN /\ \A p \in EmittedBefore(rec, n) :
              p.event.timestamp_samples \in ContextSet(rec)
        /\ Len(rec.event.context) >= Min(n, rec.newer)

-----------------------------------------------------------------------------
(* C24: the score of an event that is emitted alone *)

PromConfigs == ConfigsOf({50}, {1}, {0, 1})

InitProm == InitWith(PromConfigs, "off")

\* syllable_process; trunc records that some call so far filled its array
PromProcess(input, max_events) ==
  /\ twin = "off"
  /\ LET r == syllable_process(det, input, max_events)
     IN /\ det' = r.d
        /\ out' = out \o r.out
        /\ ret' = Len(r.out)
        /\ trunc' = (trunc \/ Len(r.out) >= max_events)
  /\ fed' = fed + Len(input)
  /\ cap' = max_events
  /\ UNCHANGED << ref, rout, twin, ctl >>

NextProm ==
  \/ \E input \in ChunksOf(MainKinds),
        max_events \in {0, PROMINENCE_BUFFER_SIZE} :
        fed + Len(input) <= MaxPromSamples /\ PromProcess(input, max_events)
  \/ Flush(PROMINENCE_BUFFER_SIZE)
  \/ SetRealtimeMode(1)

SpecProm == InitProm /\ [][NextProm]_vars

\* the records written by the call just made
Written == { out'[i] : i \in (Len(out) + 1) .. Len(out') }

\* count == 0 in calculate_prominence: prominence_score = 0.5f, and
\* is_accented = (0.5f > 0.9f) or (0.5f > 1.2f) = 0
ScoredAlone(rec) == rec.event.context = << >>

-----------------------------------------------------------------------------
(* C25: conservation of finalized events *)

NextConserve ==
  \/ \E max_events \in {0, PROMINENCE_BUFFER_SIZE} : RingProcess(max_events)
  \/ \E max_events \in {1, PROMINENCE_BUFFER_SIZE} : RingFlush(max_events)
  \/ Reset

SpecConserve == InitRing /\ [][NextConserve]_vars

\* C25: since the last reset, the events pushed are the events written by
\* process and flush, the buf_count events in the buffer and the events
\* overwritten at overflow, each exactly once; the write index is
\* (read index + buf_count) mod 16 and the ready flag is set on exactly the
\* buf_count slots starting at the read index.
C25_Conservation ==
  /\ det.h_pushed = Len(out) + det.buf_count + det.h_dropped
  /\ \A i, j \in 1 .. Len(out) :
        i # j => out[i].event.h_seq # out[j].event.h_seq
  /\ \A i \in 1 .. Len(out), j \in 1 .. det.buf_count :
        out[i].event.h_seq # PendingSeqs(det)[j]
  /\ Consecutive(PendingSeqs(det), det.h_pushed)
  /\ det.buf_write_idx =
        (det.buf_read_idx + det.buf_count) % PROMINENCE_BUFFER_SIZE
  /\ \A i \in Slots :
        det.event_buffer[i].is_ready = 1 <=>
           (i - det.buf_read_idx + PROMINENCE_BUFFER_SIZE)
               % PROMINENCE_BUFFER_SIZE < det.buf_count

\* 17 events were pushed, the oldest was overwritten, the next was written
\* by a flush with room for one and 15 are left
C25_Witness ==
  /\ det.h_pushed = PROMINENCE_BUFFER_SIZE + 1
  /\ det.h_dropped = 1
  /\ Len(out) = 1
  /\ out[1].event.h_seq = 2
  /\ det.buf_count = PROMINENCE_BUFFER_SIZE - 1

-----------------------------------------------------------------------------
(* C26: a calibration started with events pending or a syllable in flight *)

\* what the calibration skip leaves alone: the state machine and the ring
Frozen(d) ==
  << d.state, d.state_timer, d.wip_event, d.onset_timestamp,
     d.current_onset_type, d.last_event_samples, d.event_buffer,
     d.buf_read_idx, d.buf_write_idx, d.buf_count, d.h_pushed, d.h_dropped >>

\* a syllable_process call made while calibrating completed the calibration
CalibrationCompletes ==
  /\ fed' > fed
  /\ det.config.realtime_mode = 1
  /\ det.rt_cal.is_calibrating = 1
  /\ det'.rt_cal.is_calibrating = 0

\* C26: set_realtime_mode(1) and recalibrate leave the state machine, the
\* event under construction and the ring buffer as they are, and so does
\* every syllable_process call that ends within the calibration, which
\* returns nothing; the call that completes the calibration, given room,
\* writes the pending events first and in FIFO order, and the state machine
\* goes on from the state and the timer it was stopped at.
C26_CalibrationFreezes ==
  [][ /\ CalibrationStart => Frozen(det') = Frozen(det)
      /\ (fed' > fed /\ det'.config.realtime_mode = 1
            /\ det'.rt_cal.is_calibrating = 1)
           => (Frozen(det') = Frozen(det) /\ ret' = 0)
      /\ (CalibrationCompletes /\ ret' < cap')
           => /\ det'.buf_count = 0
              /\ ret' >= det.buf_count
              /\ \A j \in 1 .. det.buf_count :
                    out'[Len(out) + j].event.h_seq = PendingSeqs(det)[j]
      /\ (CalibrationCompletes /\ fed' = fed + 1 /\ det.state # "IDLE")
           => /\ det'.state_timer = det.state_timer + 1
              /\ \/ det'.state = det.state
                 \/ << det.state, det'.state >> \in StateTable
                 \/ << det.state, det'.state >> = << "ONSET_RISING", "COOLDOWN" >>
              /\ det'.state \in Building => det'.wip_event = det.wip_event
    ]_vars

\* an event finalized offline was pending through a calibration and was
\* written by the syllable_process call that completed it
C26_Witness ==
  /\ Len(out) >= 1
  /\ out[Len(out)].via = "process"
  /\ out[Len(out)].rt = 1
  /\ out[Len(out)].event.h_thresh = "offline"
  /\ det.rt_cal.is_calibrating = 0
  /\ det.rt_cal.thresh = "default"
  /\ det.rt_cal.sample_count = det.rt_cal.target_samples
  /\ ret = 1

-----------------------------------------------------------------------------
(* C27: syllable_set_snr_threshold after a completed calibration *)

\* calibration over 10 samples, so that thresh[] is computed from the data
SnrConfigs ==
  { [c EXCEPT !.calibration_duration_ms = 500] :
      c \in ConfigsOf({50}, {1}, {1}) }

\* before the first calibration thresh[] is all zero, whatever the SNR
InitSnr ==
  /\ \E cfg \in SnrConfigs : det = syllable_create(cfg)
  /\ ref = -1
  /\ out = << >>
  /\ rout = << >>
  /\ fed = 0
  /\ ret = 0
  /\ cap = 0
  /\ twin = "off"
  /\ trunc = FALSE
  /\ ctl = 0

\* syllable_process; thresh[k] = mean + gamma * std is assigned only in
\* finalize_rt_calibration, with gamma from config.snr_threshold_db
SnrProcess(input) ==
  /\ LET r == syllable_process(det, input, PROMINENCE_BUFFER_SIZE)
     IN /\ det' = r.d
        /\ out' = out \o r.out
        /\ ret' = Len(r.out)
        /\ ref' = IF /\ det.config.realtime_mode = 1
                     /\ det.rt_cal.is_calibrating = 1
                     /\ r.d.rt_cal.is_calibrating = 0
                    THEN det.config.snr_threshold_db
                    ELSE ref
  /\ fed' = fed + Len(input)
  /\ cap' = PROMINENCE_BUFFER_SIZE
  /\ UNCHANGED << rout, twin, trunc, ctl >>

NextSnr ==
  \/ \E input \in ChunksOf(MainKinds) :
        fed + Len(input) <= MaxSnrSamples /\ SnrProcess(input)
  \/ Recalibrate
  \/ \E snr_db \in {0, 6} : SetSnrThreshold(snr_db)

SpecSnr == InitSnr /\ [][NextSnr]_vars

\* C27: on a realtime detector whose calibration has completed, the
\* thresholds used by realtime fusion and the energy gate are the ones that
\* correspond to the SNR value set last, also when it was set by
\* syllable_set_snr_threshold after the calibration.
C27_SnrTakesEffect ==
  ( /\ det.config.realtime_mode = 1
    /\ det.rt_cal.is_calibrating = 0
    /\ det.rt_cal.thresh = "computed" )
  => ref = det.config.snr_threshold_db

-----------------------------------------------------------------------------
(* C28: the time bypass of the F0 gate *)

NextGate ==
  \/ \E s \in MachineKinds :
        fed < MaxGateSamples /\ Process(<< s >>, PROMINENCE_BUFFER_SIZE)
  \/ Reset

SpecGate == InitMachine /\ [][NextGate]_vars

\* samples processed since the last finalized event, or since the stream
\* start or the last reset if none was finalized since
Elapsed(d) ==
  IF d.h_pushed > 0 THEN d.total_samples - d.last_event_samples
  ELSE d.total_samples

\* C28: offline, when the sample to come is more than 2 * min_dist_samples
\* after the last finalized event (or after the stream start or the last
\* reset), the F0 gate does not block it: a voiced sample at level pitch
\* with peak_rate above threshold_on starts an onset, after any history of
\* calls.
C28_TimeBypass ==
  ( /\ det.config.realtime_mode = 0
    /\ det.state = "IDLE"
    /\ Elapsed(det) + 1 > 2 * MinDistSamples(det) )
  => \A s \in {VoicedOnset, VoicedHold} :
        ProcessSample(det, s, << >>, 0).d.state = "ONSET_RISING"

-----------------------------------------------------------------------------
(* C29: the F0 gate on unvoiced samples *)

\* unvoiced sample above the fusion and unvoiced-onset thresholds, without
\* strong evidence (fusion score not above 0.85)
SoftBurst == Sample(0, 0, 0, 0, 1, 1, 0, 1, 0, 0, 0)

\* C29: offline, f0_has_risen is forced true on every sample whose voiced
\* flag is off, so the F0 gate never suppresses an onset on an unvoiced
\* sample, also after an earlier voiced segment.
C29_UnvoicedNeverGated ==
  (det.config.realtime_mode = 0 /\ det.state = "IDLE")
  => LET d1 == ProcessSample(det, SoftBurst, << >>, 0).d
     IN d1.state = "ONSET_RISING" /\ d1.current_onset_type = "UNVOICED"

-----------------------------------------------------------------------------
(* C30: F0 smoothing with outlier rejection (octave-jump guard) *)

\* raw_f0 = 1 / period_s at an epoch, in hundredths of Hz: 40 Hz and 700 Hz
\* are outside (50, 600); 100 / 110 and 200 / 210 are within 20% of each
\* other, the two pairs are an octave apart
RawF0Set == {4000, 10000, 11000, 20000, 21000, 70000}

\* the branch taken for raw_f0 by a tracker t
F0Kind(t, raw_f0) ==
  IF ~ (raw_f0 > 5000 /\ raw_f0 < 60000) THEN "out_of_range"
  ELSE IF t.smoothed_f0 < 5000 THEN "first"
  ELSE LET diff == IF raw_f0 >= t.smoothed_f0 THEN raw_f0 - t.smoothed_f0
                   ELSE t.smoothed_f0 - raw_f0
       IN IF 5 * diff < t.smoothed_f0 THEN "tracked" ELSE "deviating"

\* variant: the deviating value is accepted when the counter reaches 3
F0Smoothing_accepts_third(t, raw_f0) ==
  LET kind == F0Kind(t, raw_f0)
  IN CASE kind = "out_of_range" -> t
       [] kind = "first" ->
            [smoothed_f0 |-> raw_f0, current_f0 |-> raw_f0,
             f0_jump_counter |-> 0]
       [] kind = "tracked" ->
            LET ema == (7 * t.smoothed_f0 + 3 * raw_f0) \div 10
            IN [smoothed_f0 |-> ema, current_f0 |-> ema,
                f0_jump_counter |-> 0]
       [] kind = "deviating" ->
            IF t.f0_jump_counter + 1 >= F0_JUMP_CONFIRM
              THEN [smoothed_f0 |-> raw_f0, current_f0 |-> raw_f0,
                    f0_jump_counter |-> 0]
              ELSE [t EXCEPT !.f0_jump_counter = @ + 1]

\* syllable_process at an epoch with last_epoch_samples_ago > 0: validate
\* the F0 range, initialize, track by EMA (0.7 / 0.3, rounded down to a
\* hundredth of a Hz) or count a possible octave jump
F0Smoothing(t, raw_f0) ==
  LET kind == F0Kind(t, raw_f0)
  IN CASE kind = "out_of_range" -> t
       [] kind = "first" ->
            [smoothed_f0 |-> raw_f0, current_f0 |-> raw_f0,
             f0_jump_counter |-> 0]
       [] kind = "tracked" ->
            LET ema == (7 * t.smoothed_f0 + 3 * raw_f0) \div 10
            IN [smoothed_f0 |-> ema, current_f0 |-> ema,
                f0_jump_counter |-> 0]
       [] kind = "deviating" ->
            IF t.f0_jump_counter + 1 > F0_JUMP_CONFIRM
              THEN [smoothed_f0 |-> raw_f0, current_f0 |-> raw_f0,
                    f0_jump_counter |-> 0]
              ELSE [t EXCEPT !.f0_jump_counter = @ + 1]

\* syllable_create: smoothed_f0 = 0.0f, f0_jump_counter = 0; in SpecF0 det
\* holds these fields only and out the epochs seen
InitF0 ==
  /\ det = [smoothed_f0 |-> 0, current_f0 |-> 0, f0_jump_counter |-> 0]
  /\ ref = det
  /\ out = << >>
  /\ rout = << >>
  /\ fed = 0
  /\ ret = 0
  /\ cap = 0
  /\ twin = "off"
  /\ trunc = FALSE
  /\ ctl = 0

\* one epoch; out records the value, the branch taken and whether the
\* value replaced the smoothed pitch
Epoch(raw_f0) ==
  /\ fed < MaxF0Epochs
  /\ det' = F0Smoothing(det, raw_f0)
  /\ out' = Append(out, [raw_f0 |-> raw_f0,
                         kind |-> F0Kind(det, raw_f0),
                         replaced |-> F0Kind(det, raw_f0) = "deviating"
                                      /\ det'.smoothed_f0 = raw_f0])
  /\ fed' = fed + 1
  /\ UNCHANGED << ret, cap, ref, rout, twin, trunc, ctl >>

SpecF0 == InitF0 /\ [][\E raw_f0 \in RawF0Set : Epoch(raw_f0)]_vars

\* the in-range values seen, oldest first
InRangeEpochs(h) == SelectSeq(h, LAMBDA e : e.kind # "out_of_range")

\* the last n in-range values before the newest were deviating and rejected
RejectedBefore(h, n) ==
  LET q == InRangeEpochs(h)
  IN /\ Len(q) > n
     /\ \A k \in 1 .. n :
           q[Len(q) - k].kind = "deviating" /\ ~ q[Len(q) - k].replaced

-----------------------------------------------------------------------------
(* C31: the voiced flag *)

\* syllable_create: memset to 0, voiced_hold_samples = max(1, hold_ms * rate);
\* det holds the voicing fields only. h_age: samples since the most recent
\* epoch after the stream start or the last reset, -1 if there was none;
\* h_samples: samples processed since then.
InitVoicing ==
  /\ \E hold_ms \in {30, 100} :
        det = [ voiced_hold_samples |->
                   IF MsToSamples(hold_ms, SampleRate) < 1 THEN 1
                   ELSE MsToSamples(hold_ms, SampleRate),
                last_zff_neg |-> FALSE,
                last_epoch_samples_ago |-> 0,
                voicing_counter |-> 0,
                is_voiced |-> 0,
                h_age |-> -1,
                h_samples |-> 0 ]
  /\ ref = det
  /\ out = << >>
  /\ rout = << >>
  /\ fed = 0
  /\ ret = 0
  /\ cap = 0
  /\ twin = "off"
  /\ trunc = FALSE
  /\ ctl = 0

\* syllable_process, 1. ZFF detection and voicing logic for one sample:
\* zff_neg is zff_out < 0, f0_in_range is 50 < raw_f0 < 600
VoicingSample(zff_neg, f0_in_range) ==
  /\ fed < MaxVoicingSamples
  /\ LET is_epoch == det.last_zff_neg /\ ~ zff_neg
         counted == is_epoch /\ det.last_epoch_samples_ago > 0 /\ f0_in_range
         ago == IF is_epoch THEN 0 ELSE det.last_epoch_samples_ago + 1
         counter == IF counted THEN 5 ELSE det.voicing_counter
         voiced == IF is_epoch
                     THEN (IF counter > 0 THEN 1 ELSE 0)
                     ELSE (IF ago > det.voiced_hold_samples THEN 0 ELSE 1)
     IN det' = [det EXCEPT !.last_zff_neg = zff_neg,
                           !.last_epoch_samples_ago = ago,
                           !.voicing_counter = counter,
                           !.is_voiced = voiced,
                           !.h_age = IF is_epoch THEN 0
                                     ELSE IF @ < 0 THEN @ ELSE @ + 1,
                           !.h_samples = @ + 1]
  /\ fed' = fed + 1
  /\ UNCHANGED << out, ret, cap, ref, rout, twin, trunc, ctl >>

\* syllable_reset: is_voiced = 0, voicing_counter = 0; last_zff_val and
\* last_epoch_samples_ago are not assigned
VoicingReset ==
  /\ ctl < MaxCtl
  /\ det' = [det EXCEPT !.is_voiced = 0,
                        !.voicing_counter = 0,
                        !.h_age = -1,
                        !.h_samples = 0]
  /\ ctl' = ctl + 1
  /\ UNCHANGED << out, fed, ret, cap, ref, rout, twin, trunc >>

SpecVoicing ==
  InitVoicing /\ [][ \/ \E zff_neg, f0_in_range \in BOOLEAN :
                           VoicingSample(zff_neg, f0_in_range)
                     \/ VoicingReset ]_vars

\* C31: after every sample, is_voiced is true if and only if an epoch
\* occurred at most voiced_hold_samples samples earlier; it is false from
\* the stream start or a reset until the first epoch.
C31_VoicedWithinHold ==
  det.h_samples > 0 =>
     (det.is_voiced = 1
        <=> (det.h_age >= 0 /\ det.h_age <= det.voiced_hold_samples))

-----------------------------------------------------------------------------
(* C32: an event in the ring buffer *)

\* one sample per syllable_process call, with or without room for events;
\* syllable_flush, syllable_recalibrate and syllable_reset at any point
NextBuffer ==
  \/ \E s \in MainKinds, max_events \in {0, PROMINENCE_BUFFER_SIZE} :
        fed < MaxBufferSamples /\ Process(<< s >>, max_events)
  \/ \E max_events \in OutCaps : Flush(max_events)
  \/ Recalibrate
  \/ Reset

SpecBuffer == InitFlight /\ [][NextBuffer]_vars

\* C32: the timestamp of an event is the total-sample counter at the IDLE to
\* ONSET_RISING transition and stays so until the event is finalized; a
\* finalized event is stored as it was built, is not changed while it is
\* pending, and is written with only the prominence context (delta_f0,
\* prominence_score) and the accent flag changed.
C32_BufferingKeepsEvent ==
  [][ LET slots == 0 .. PROMINENCE_BUFFER_SIZE - 1
          noreset == det'.total_samples >= det.total_samples
                        /\ det'.h_pushed >= det.h_pushed
                        /\ Len(out') >= Len(out)
          scored(a, b) == [a EXCEPT !.context = b.context,
                                    !.accent_thr = b.accent_thr] = b
          written == { out'[k].event : k \in Len(out) + 1 .. Len(out') }
          stored == { det'.event_buffer[i].event :
                        i \in { j \in slots :
                                  det'.event_buffer[j].is_ready = 1 } }
          pending == { det.event_buffer[i].event :
                         i \in { j \in slots :
                                   det.event_buffer[j].is_ready = 1 } }
      IN noreset =>
           /\ (det.state = "IDLE" /\ det'.state = "ONSET_RISING")
                 => /\ det'.wip_event.timestamp_samples = det'.total_samples
                    /\ det'.total_samples = det.total_samples + 1
           /\ (det.state \in {"ONSET_RISING", "NUCLEUS"})
                 => det'.wip_event.timestamp_samples
                       = det.wip_event.timestamp_samples
           /\ det'.h_pushed > det.h_pushed
                 => /\ det.state = "NUCLEUS"
                    /\ det'.h_pushed = det.h_pushed + 1
                    /\ \E e \in stored \cup written :
                          /\ e.h_seq = det'.h_pushed
                          /\ scored([det'.wip_event EXCEPT
                                        !.h_seq = e.h_seq], e)
           /\ \A e \in stored :
                 e.h_seq <= det.h_pushed => e \in pending
           /\ \A e \in written :
                 e.h_seq <= det.h_pushed
                    => \E p \in pending : scored(p, e)
    ]_vars

\* an event is written by syllable_flush three or more samples after it was
\* finalized
C32_Witness ==
  /\ Len(out) >= 1
  /\ out[Len(out)].via = "flush"
  /\ ret = 1
  /\ out[Len(out)].event.timestamp_samples + out[Len(out)].event.duration + 3
        <= det.total_samples

-----------------------------------------------------------------------------
(* C33: syllable_flush *)

\* C33: syllable_flush returns min(buf_count, max_events) events, the oldest
\* pending ones in order, and changes nothing of the detector but the ring
\* buffer slots it read, the read index and the count: the state, the state
\* timer, the event under construction, the sample counter and the
\* calibration state are as before, and a flush that follows one that
\* emptied the buffer returns 0.
C33_FlushOnlyBuffer ==
  [][ (fed' = fed /\ ctl' = ctl) =>
        /\ ret' = Min(det.buf_count, cap')
        /\ Len(out') = Len(out) + ret'
        /\ \A k \in 1 .. ret' :
              LET slot == det.event_buffer[(det.buf_read_idx + k - 1)
                                              % PROMINENCE_BUFFER_SIZE]
              IN /\ slot.is_ready = 1
                 /\ out'[Len(out) + k].event.h_seq = slot.event.h_seq
                 /\ out'[Len(out) + k].event.h_seq
                       = det.h_pushed - det.buf_count + k
        /\ det'.buf_count = det.buf_count - ret'
        /\ det'.buf_read_idx
              = (det.buf_read_idx + ret') % PROMINENCE_BUFFER_SIZE
        /\ det' = [det EXCEPT !.event_buffer = det'.event_buffer,
                              !.buf_read_idx = det'.buf_read_idx,
                              !.buf_count = det'.buf_count]
        /\ det'.buf_count = 0
              => Len(syllable_flush(det', cap').out) = 0
    ]_vars

\* a flush has returned the pending event while the next syllable was in
\* ONSET_RISING, which stays under construction
C33_Witness ==
  /\ det.state = "ONSET_RISING"
  /\ UnderConstruction(det)
  /\ ret = 1
  /\ cap = PROMINENCE_BUFFER_SIZE
  /\ det.buf_count = 0
  /\ out[Len(out)].via = "flush"
  /\ out[Len(out)].event.h_seq = det.h_pushed
  /\ det.wip_event.timestamp_samples = det.total_samples

-----------------------------------------------------------------------------
(* C34: allow_unvoiced_onsets = 0 *)

InitVoicedOnly ==
  InitWith({ [cfg EXCEPT !.allow_unvoiced_onsets = 0] : cfg \in FlightConfigs },
           "off")

\* one sample per call: silence, unvoiced burst, voiced onset, and a voiced
\* fricative (fusion trigger with hf_norm > 0.5)
NextVoicedOnly ==
  \/ \E s \in {Silence, Burst, VoicedOnset,
               Sample(1, 0, 0, 0, 1, 0, 1, 1, 1, 0, 0)},
        max_events \in {0, PROMINENCE_BUFFER_SIZE} :
        fed < MaxVoicedOnlySamples /\ Process(<< s >>, max_events)
  \/ Flush(PROMINENCE_BUFFER_SIZE)
  \/ Reset

SpecVoicedOnly == InitVoicedOnly /\ [][NextVoicedOnly]_vars

\* C34: with allow_unvoiced_onsets = 0 an onset starts only at a sample
\* where is_voiced is 1, with onset type VOICED or MIXED, and every event
\* emitted has onset_type VOICED or MIXED.
C34_NoUnvoicedEvents ==
  [][ det.config.allow_unvoiced_onsets = 0 =>
        /\ (det.state = "IDLE" /\ det'.state = "ONSET_RISING")
              => /\ det'.is_voiced = 1
                 /\ det'.current_onset_type \in {"VOICED", "MIXED"}
                 /\ det'.wip_event.onset_type = det'.current_onset_type
        /\ \A k \in 1 .. Len(out') :
              out'[k].event.onset_type \in {"VOICED", "MIXED"}
    ]_vars

\* a VOICED event was emitted whose onset is not the first sample: the
\* samples before it did not start an onset
C34_Witness ==
  /\ det.config.allow_unvoiced_onsets = 0
  /\ Len(out) = 1
  /\ out[1].event.onset_type = "VOICED"
  /\ out[1].event.timestamp_samples > 1
  /\ det.h_pushed = 1

-----------------------------------------------------------------------------
(* C35: the indices of the context loop *)

\* A detector with context_size, on which buf_count events were finalized
\* from the creation or the last reset on and none was written: the slots
\* 0 .. buf_count - 1 are ready and syllable_flush is called. i is the loop
\* counter of calculate_delta_f0, prev_idx and next_idx the indices it
\* computed last, f0_count the pitch values stored in f0_values so far.
InitContext ==
  /\ \E context_size \in 0 .. MaxContextSize,
        buf_count \in 1 .. PROMINENCE_BUFFER_SIZE :
        det = [ context_size |-> context_size,
                buf_read_idx |-> 0,
                buf_count |-> buf_count,
                buf_write_idx |-> buf_count % PROMINENCE_BUFFER_SIZE,
                i |-> 1,
                prev_idx |-> 0,
                next_idx |-> 0,
                f0_count |-> 0 ]
  /\ ref = det
  /\ out = << >>
  /\ rout = << >>
  /\ fed = 0
  /\ ret = 0
  /\ cap = 0
  /\ twin = "off"
  /\ trunc = FALSE
  /\ ctl = 0

\* One iteration of for (i = 1; i <= context_size; i++) for the target at
\* the read index. The operator % of C truncates towards zero, so a negative
\* left operand gives a negative index; is_ready and f0 read outside the
\* event buffer are whatever the memory holds (wild). prev_f0 and next_f0:
\* event.f0 > 50.0f of the slot read.
ContextIteration(prev_f0, next_f0, wild) ==
  /\ det.buf_count > 0
  /\ det.i <= det.context_size
  /\ LET target_idx == det.buf_read_idx
         a == target_idx - det.i + PROMINENCE_BUFFER_SIZE
         prev_idx == IF a >= 0 THEN a % PROMINENCE_BUFFER_SIZE
                     ELSE 0 - ((0 - a) % PROMINENCE_BUFFER_SIZE)
         next_idx == (target_idx + det.i) % PROMINENCE_BUFFER_SIZE
         is_ready(idx) ==
           IF idx \in 0 .. PROMINENCE_BUFFER_SIZE - 1
             THEN (idx - det.buf_read_idx + PROMINENCE_BUFFER_SIZE)
                      % PROMINENCE_BUFFER_SIZE < det.buf_count
             ELSE wild
         n1 == IF is_ready(prev_idx) /\ prev_f0 THEN 1 ELSE 0
         n2 == IF is_ready(next_idx) /\ next_f0 THEN 1 ELSE 0
     IN det' = [det EXCEPT !.prev_idx = prev_idx,
                           !.next_idx = next_idx,
                           !.f0_count = @ + n1 + n2,
                           !.i = @ + 1]
  /\ UNCHANGED << out, fed, ret, cap, ref, rout, twin, trunc, ctl >>

\* the loop has ended: the event is written, its slot is no longer ready and
\* syllable_flush goes on with the next pending event
ContextWritten ==
  /\ det.buf_count > 0
  /\ det.i > det.context_size
  /\ det' = [det EXCEPT !.buf_read_idx = (@ + 1) % PROMINENCE_BUFFER_SIZE,
                        !.buf_count = @ - 1,
                        !.i = 1,
                        !.f0_count = 0]
  /\ ret' = ret + 1
  /\ UNCHANGED << out, fed, cap, ref, rout, twin, trunc, ctl >>

SpecContext ==
  InitContext /\ [][ \/ \E prev_f0, next_f0, wild \in BOOLEAN :
                           ContextIteration(prev_f0, next_f0, wild)
                     \/ ContextWritten ]_vars

\* C35: for every context_size >= 0 and every ring-buffer content, the
\* neighbour indices computed during emission and flush are within 0..15
\* and at most 16 pitch values are collected into the scratch array.
C35_ContextInBounds ==
  /\ det.prev_idx \in 0 .. PROMINENCE_BUFFER_SIZE - 1
  /\ det.next_idx \in 0 .. PROMINENCE_BUFFER_SIZE - 1
  /\ det.f0_count <= PROMINENCE_BUFFER_SIZE

-----------------------------------------------------------------------------
(* C36: the running statistics of the features *)

\* syllable_create: the extractors of the enabled features with
\* samples_since_hop = 0 and hop_size = (int)(hop_size_ms * 0.001f * rate),
\* init_feature_stats with sample_count = 0. h_samples: samples processed
\* since the creation or the last reset; h_gated: those of them with
\* is_voiced || allow_unvoiced_onsets.
InitStats ==
  /\ \E hop_size_ms \in {50, 100, 150},
        enable_spectral_flux, enable_mfcc_delta, allow_unvoiced_onsets
           \in {0, 1} :
        det = [ hop_size |-> MsToSamples(hop_size_ms, SampleRate),
                spectral_flux |-> enable_spectral_flux,
                mfcc |-> enable_mfcc_delta,
                allow_unvoiced_onsets |-> allow_unvoiced_onsets,
                sf_samples_since_hop |-> 0,
                mfcc_samples_since_hop |-> 0,
                stats_peak_rate |-> 0,
                stats_spectral_flux |-> 0,
                stats_mfcc_delta |-> 0,
                h_samples |-> 0,
                h_gated |-> 0 ]
  /\ ref = det
  /\ out = << >>
  /\ rout = << >>
  /\ fed = 0
  /\ ret = 0
  /\ cap = 0
  /\ twin = "off"
  /\ trunc = FALSE
  /\ ctl = 0

\* variant: the spectral-flux statistic is updated on every sample with the
\* value of the last frame
StatsSample_flux_every_sample(is_voiced) ==
  /\ fed < MaxStatsSamples
  /\ LET gate == is_voiced = 1 \/ det.allow_unvoiced_onsets = 1
         sf_hop == det.sf_samples_since_hop + 1 >= det.hop_size
         mfcc_hop == det.mfcc_samples_since_hop + 1 >= det.hop_size
     IN det' = [det EXCEPT
          !.stats_peak_rate = IF gate THEN @ + 1 ELSE @,
          !.sf_samples_since_hop =
             IF det.spectral_flux = 0 THEN @
             ELSE IF sf_hop THEN 0 ELSE @ + 1,
          !.stats_spectral_flux =
             IF det.spectral_flux = 1 THEN @ + 1 ELSE @,
          !.mfcc_samples_since_hop =
             IF det.mfcc = 0 THEN @
             ELSE IF mfcc_hop THEN 0 ELSE @ + 1,
          !.stats_mfcc_delta =
             IF det.mfcc = 1 /\ mfcc_hop THEN @ + 1 ELSE @,
          !.h_samples = @ + 1,
          !.h_gated = IF gate THEN @ + 1 ELSE @]
  /\ fed' = fed + 1
  /\ UNCHANGED << out, ret, cap, ref, rout, twin, trunc, ctl >>

\* syllable_process, one sample: update of stats_peak_rate (2.), then
\* spectral_flux_process and mfcc_process on the sample with the update of
\* their statistics when a frame was computed (3.). The fields stats_* are
\* the sample_count of the statistics.
StatsSample(is_voiced) ==
  /\ fed < MaxStatsSamples
  /\ LET gate == is_voiced = 1 \/ det.allow_unvoiced_onsets = 1
         sf_hop == det.sf_samples_since_hop + 1 >= det.hop_size
         mfcc_hop == det.mfcc_samples_since_hop + 1 >= det.hop_size
     IN det' = [det EXCEPT
          !.stats_peak_rate = IF gate THEN @ + 1 ELSE @,
          !.sf_samples_since_hop =
             IF det.spectral_flux = 0 THEN @
             ELSE IF sf_hop THEN 0 ELSE @ + 1,
          !.stats_spectral_flux =
             IF det.spectral_flux = 1 /\ sf_hop THEN @ + 1 ELSE @,
          !.mfcc_samples_since_hop =
             IF det.mfcc = 0 THEN @
             ELSE IF mfcc_hop THEN 0 ELSE @ + 1,
          !.stats_mfcc_delta =
             IF det.mfcc = 1 /\ mfcc_hop THEN @ + 1 ELSE @,
          !.h_samples = @ + 1,
          !.h_gated = IF gate THEN @ + 1 ELSE @]
  /\ fed' = fed + 1
  /\ UNCHANGED << out, ret, cap, ref, rout, twin, trunc, ctl >>

\* syllable_reset: spectral_flux_reset and mfcc_reset of the extractors that
\* exist, init_feature_stats of every statistic
StatsReset ==
  /\ ctl < MaxCtl
  /\ det' = [det EXCEPT !.sf_samples_since_hop = 0,
                        !.mfcc_samples_since_hop = 0,
                        !.stats_peak_rate = 0,
                        !.stats_spectral_flux = 0,
                        !.stats_mfcc_delta = 0,
                        !.h_samples = 0,
                        !.h_gated = 0]
  /\ ctl' = ctl + 1
  /\ UNCHANGED << out, fed, ret, cap, ref, rout, twin, trunc >>

SpecStats ==
  InitStats /\ [][ (\E is_voiced \in {0, 1} : StatsSample(is_voiced))
                   \/ StatsReset ]_vars

\* C36: the spectral-flux and the MFCC-delta statistics have been updated
\* once for every hop_size samples processed and at no other sample, those
\* of a disabled feature never, and the peak-rate statistic at exactly the
\* samples where is_voiced was 1 or unvoiced onsets are allowed.
C36_StatsFollowExtractors ==
  /\ det.stats_spectral_flux =
        IF det.spectral_flux = 1 THEN det.h_samples \div det.hop_size ELSE 0
  /\ det.stats_mfcc_delta =
        IF det.mfcc = 1 THEN det.h_samples \div det.hop_size ELSE 0
  /\ det.spectral_flux = 1
        => det.sf_samples_since_hop = det.h_samples % det.hop_size
  /\ det.mfcc = 1
        => det.mfcc_samples_since_hop = det.h_samples % det.hop_size
  /\ det.stats_peak_rate = det.h_gated

\* six samples at hop_size 3 with MFCC disabled and unvoiced onsets not
\* allowed, three of them voiced
C36_Witness ==
  /\ det.hop_size = 3
  /\ det.spectral_flux = 1
  /\ det.mfcc = 0
  /\ det.allow_unvoiced_onsets = 0
  /\ det.h_samples = 6
  /\ det.stats_spectral_flux = 2
  /\ det.stats_mfcc_delta = 0
  /\ det.stats_peak_rate = 3
  /\ ctl = 1

-----------------------------------------------------------------------------
(* C37: the accent threshold of the two emission paths *)

====
